---- MODULE Spec2Model ----
(***************************************************************************)
(* DayRhythm AI backend: the Express request pipeline (routing, the        *)
(* Supabase token middleware, the /ai and /events handlers) and the pure   *)
(* visual-insights computation (energy heatmap, focus blocks, work/life    *)
(* balance).                                                               *)
(*                                                                         *)
(* Times are decimal hours in the source.  Here a time is an integer       *)
(* number of quarter hours (9.0 -> 36, 10.25 -> 41), so every value of the *)
(* model is exactly representable as a double and sums and differences of  *)
(* times are exact in the source as well.                                  *)
(***************************************************************************)
EXTENDS Integers, Sequences, FiniteSets, TLC

VARIABLES
    store,        \* the rows of the "events" table of the external store
    inserted,     \* the number of rows the table has been given an id for
    session,      \* the tokens the auth provider currently accepts
    env,          \* the environment configuration read at start-up
    req,          \* the requests being served, one record per connection
    accepted,     \* history: the expiring tokens the provider has accepted so far
    viEvents,     \* the event list handed to calculateVisualInsights
    viOut,        \* its result (NoResult before the call)
    viPc          \* "call" before the computation, "done" after it

allVars == <<store, inserted, session, env, req, accepted, viEvents, viOut, viPc>>

-----------------------------------------------------------------------------
(* Values and small helpers                                                *)

\* JavaScript null for a nullable text column / optional field.
null == "<null>"

\* h hours and q quarter hours, in quarter hours.
Hours(h, q) == 4 * h + q

Abs(x) == IF x < 0 THEN -x ELSE x

Max(a, b) == IF a >= b THEN a ELSE b

\* Math.round(num / den) for den > 0: nearest integer, ties towards +infinity.
round(num, den) == (2 * num + den) \div (2 * den)

RECURSIVE SumSeq(_)
SumSeq(s) == IF s = <<>> THEN 0 ELSE Head(s) + SumSeq(Tail(s))

\* All sequences over S of length at most n.
SeqsUpTo(S, n) == UNION {[1..k -> S] : k \in 0..n}

\* The lower-case form of one character (ASCII letters; the rest is unchanged).
toLowerChar(c) ==
    CASE c = "A" -> "a" [] c = "B" -> "b" [] c = "C" -> "c" [] c = "D" -> "d" [] c = "E" -> "e"
      [] c = "F" -> "f" [] c = "G" -> "g" [] c = "H" -> "h" [] c = "I" -> "i" [] c = "J" -> "j"
      [] c = "K" -> "k" [] c = "L" -> "l" [] c = "M" -> "m" [] c = "N" -> "n" [] c = "O" -> "o"
      [] c = "P" -> "p" [] c = "Q" -> "q" [] c = "R" -> "r" [] c = "S" -> "s" [] c = "T" -> "t"
      [] c = "U" -> "u" [] c = "V" -> "v" [] c = "W" -> "w" [] c = "X" -> "x" [] c = "Y" -> "y"
      [] c = "Z" -> "z"
      [] OTHER -> c

\* String.prototype.toLowerCase
RECURSIVE toLowerCase(_)
toLowerCase(s) ==
    IF Len(s) = 0 THEN ""
    ELSE toLowerChar(SubSeq(s, 1, 1)) \o toLowerCase(SubSeq(s, 2, Len(s)))

\* String.prototype.includes
includes(s, sub) ==
    \E i \in 1..(Len(s) - Len(sub) + 1) : SubSeq(s, i, i + Len(sub) - 1) = sub

\* notification_settings of a row stored without them
defaultNotificationSettings ==
    [enabled |-> FALSE, minutesBefore |-> <<>>, notificationIds |-> <<>>]

\* A row of the events table (the created_at / updated_at timestamps are
\* left out: no handler reads them).
Row(id, user, title, st, et, date, cat) ==
    [id |-> id, user_id |-> user, title |-> title, description |-> null,
     start_time |-> st, end_time |-> et, date |-> date, emoji |-> null,
     color_hex |-> null, category |-> cat, participants |-> <<>>,
     is_completed |-> FALSE, notification_settings |-> defaultNotificationSettings]

-----------------------------------------------------------------------------
(* calculateVisualInsights                                                 *)

\* event.category?.toLowerCase() || 'other'
categoryKey(event) ==
    IF event.category = null THEN "other"
    ELSE LET lc == toLowerCase(event.category)
         IN  IF lc = "" THEN "other" ELSE lc

optimalEnergy_le12(startHour) ==
    IF startHour >= Hours(9, 0) /\ startHour <= Hours(12, 0) THEN "high"
    ELSE IF (startHour >= Hours(6, 0) /\ startHour < Hours(9, 0))
            \/ (startHour >= Hours(16, 0) /\ startHour < Hours(19, 0)) THEN "medium"
    ELSE "low"

optimalEnergy(startHour) ==
    IF startHour >= Hours(9, 0) /\ startHour < Hours(12, 0) THEN "high"
    ELSE IF (startHour >= Hours(6, 0) /\ startHour < Hours(9, 0))
            \/ (startHour >= Hours(16, 0) /\ startHour < Hours(19, 0)) THEN "medium"
    ELSE "low"

actualTaskType_meetingFirst(category) ==
    IF includes(category, "meeting") \/ includes(category, "call") THEN "meetings"
    ELSE IF includes(category, "work") \/ includes(category, "coding")
            \/ includes(category, "deep") THEN "deep-work"
    ELSE IF includes(category, "email") \/ includes(category, "admin") THEN "admin"
    ELSE IF includes(category, "design") \/ includes(category, "creative") THEN "creative"
    ELSE "other"

actualTaskType(category) ==
    IF includes(category, "work") \/ includes(category, "coding")
       \/ includes(category, "deep") THEN "deep-work"
    ELSE IF includes(category, "meeting") \/ includes(category, "call") THEN "meetings"
    ELSE IF includes(category, "email") \/ includes(category, "admin") THEN "admin"
    ELSE IF includes(category, "design") \/ includes(category, "creative") THEN "creative"
    ELSE "other"

alignment_noAdminRule(taskType, energy) ==
    IF taskType = "deep-work" /\ energy = "high" THEN "optimal"
    ELSE IF taskType = "meetings" /\ energy = "low" THEN "poor"
    ELSE IF taskType = "deep-work" /\ energy = "low" THEN "poor"
    ELSE "good"

alignment(taskType, energy) ==
    IF taskType = "deep-work" /\ energy = "high" THEN "optimal"
    ELSE IF taskType = "meetings" /\ energy = "low" THEN "poor"
    ELSE IF taskType = "deep-work" /\ energy = "low" THEN "poor"
    ELSE IF energy = "high" /\ taskType = "admin" THEN "poor"
    ELSE "good"

heatmapEntry(event) ==
    LET category == categoryKey(event)
        energy   == optimalEnergy(event.start_time)
        taskType == actualTaskType(category)
    IN  [title          |-> event.title,
         startTime      |-> event.start_time,
         endTime        |-> event.end_time,
         optimalEnergy  |-> energy,
         actualTaskType |-> taskType,
         alignment      |-> alignment(taskType, energy),
         category       |-> event.category]

energyHeatmap(events) == [i \in 1..Len(events) |-> heatmapEntry(events[i])]

\* Array.prototype.sort with (a, b) => a.start_time - b.start_time: a stable
\* sort, so an event goes after the events that do not start later than it.
RECURSIVE insertSorted_tiesFirst(_, _)
insertSorted_tiesFirst(sorted, event) ==
    IF sorted = <<>> THEN <<event>>
    ELSE IF Head(sorted).start_time - event.start_time >= 0
         THEN <<event>> \o sorted
         ELSE <<Head(sorted)>> \o insertSorted_tiesFirst(Tail(sorted), event)

RECURSIVE insertSorted(_, _)
insertSorted(sorted, event) ==
    IF sorted = <<>> THEN <<event>>
    ELSE IF Head(sorted).start_time - event.start_time > 0
         THEN <<event>> \o sorted
         ELSE <<Head(sorted)>> \o insertSorted(Tail(sorted), event)

RECURSIVE sortedEvents(_)
sortedEvents(events) ==
    IF events = <<>> THEN <<>>
    ELSE insertSorted(sortedEvents(SubSeq(events, 1, Len(events) - 1)),
                      events[Len(events)])

eventsAfter_sortInPlace(events) == sortedEvents(events)

\* The caller's array after the call: the sort works on the copy [...events],
\* map and forEach do not write to it.
eventsAfter(events) == events

quality_strict(duration) ==
    IF duration > Hours(1, 2) THEN "excellent"
    ELSE IF duration >= Hours(0, 2) THEN "good"
    ELSE "fragmented"

\* duration >= 1.5, duration >= 0.5
quality(duration) ==
    IF duration >= Hours(1, 2) THEN "excellent"
    ELSE IF duration >= Hours(0, 2) THEN "good"
    ELSE "fragmented"

hasGap_anyGap(sorted, i) ==
    IF i + 1 <= Len(sorted)
    THEN (sorted[i + 1].start_time - sorted[i].end_time) >= 0
    ELSE TRUE

\* nextEvent ? (nextEvent.start_time - event.end_time) >= 0.25 : true
hasGap(sorted, i) ==
    IF i + 1 <= Len(sorted)
    THEN (sorted[i + 1].start_time - sorted[i].end_time) >= Hours(0, 1)
    ELSE TRUE

focusBlocks(events) ==
    LET sorted == sortedEvents(events)
    IN  [i \in 1..Len(sorted) |->
           LET event    == sorted[i]
               duration == event.end_time - event.start_time
           IN  [title         |-> event.title,
                startTime     |-> event.start_time,
                duration      |-> duration,
                quality       |-> quality(duration),
                hasBreakAfter |-> hasGap(sorted, i),
                category      |-> event.category]]

broadCategory_healthFirst(category) ==
    IF includes(category, "health") \/ includes(category, "exercise")
       \/ includes(category, "fitness") THEN "health"
    ELSE IF includes(category, "work") \/ includes(category, "meeting")
            \/ includes(category, "coding") THEN "work"
    ELSE IF includes(category, "personal") \/ includes(category, "family")
            \/ includes(category, "social") THEN "personal"
    ELSE "other"

broadCategory(category) ==
    IF includes(category, "work") \/ includes(category, "meeting")
       \/ includes(category, "coding") THEN "work"
    ELSE IF includes(category, "health") \/ includes(category, "exercise")
            \/ includes(category, "fitness") THEN "health"
    ELSE IF includes(category, "personal") \/ includes(category, "family")
            \/ includes(category, "social") THEN "personal"
    ELSE "other"

BroadCategories == {"work", "personal", "health", "other"}

\* categoryTotals[b] || 0 after the forEach: the durations of the events of
\* bucket b, added up.
categoryTotals(events) ==
    [b \in BroadCategories |->
        SumSeq([i \in 1..Len(events) |->
                  IF broadCategory(categoryKey(events[i])) = b
                  THEN events[i].end_time - events[i].start_time
                  ELSE 0])]

\* Object.values(categoryTotals).reduce(...)
totalHours(totals) ==
    totals["work"] + totals["personal"] + totals["health"] + totals["other"]

percentage_floor(bucket, total) ==
    IF total > 0 THEN (100 * bucket) \div total ELSE 0

\* totalHours > 0 ? Math.round(bucket / totalHours * 100) : 0
percentage(bucket, total) ==
    IF total > 0 THEN round(100 * bucket, total) ELSE 0

calculateBalanceScore_noFloor(totals, total) ==
    IF total = 0 THEN 0
    ELSE LET workDev       == Abs(100 * totals["work"] - 60 * total)
             personalDev   == Abs(100 * totals["personal"] - 25 * total)
             healthDev     == Abs(100 * totals["health"] - 15 * total)
             totalDeviation == workDev + personalDev + healthDev
         IN  round(100 * Abs(total) - totalDeviation, Abs(total))

\* The deviations are (|100*b - ideal*total|) / |total|; the score is
\* Math.round(Math.max(0, 100 - totalDeviation)).
calculateBalanceScore(totals, total) ==
    IF total = 0 THEN 0
    ELSE LET idealWork     == 60
             idealPersonal == 25
             idealHealth   == 15
             workDev       == Abs(100 * totals["work"] - idealWork * total)
             personalDev   == Abs(100 * totals["personal"] - idealPersonal * total)
             healthDev     == Abs(100 * totals["health"] - idealHealth * total)
             totalDeviation == workDev + personalDev + healthDev
             score         == Max(0, 100 * Abs(total) - totalDeviation)
         IN  round(score, Abs(total))

workLifeBalance(events) ==
    LET totals == categoryTotals(events)
        total  == totalHours(totals)
    IN  [work               |-> totals["work"],
         personal           |-> totals["personal"],
         health             |-> totals["health"],
         other              |-> totals["other"],
         workPercentage     |-> percentage(totals["work"], total),
         personalPercentage |-> percentage(totals["personal"], total),
         healthPercentage   |-> percentage(totals["health"], total),
         otherPercentage    |-> percentage(totals["other"], total),
         balanceScore       |-> calculateBalanceScore(totals, total)]

\* viOut before the computation has run
NoResult == [energyHeatmap |-> <<>>, focusBlocks |-> <<>>, workLifeBalance |-> "none"]

calculateVisualInsights(events) ==
    [energyHeatmap   |-> energyHeatmap(events),
     focusBlocks     |-> focusBlocks(events),
     workLifeBalance |-> workLifeBalance(events)]

-----------------------------------------------------------------------------
(* JSON values of request bodies, model replies and responses: a value     *)
(* carries its JavaScript type; an object is a record of the keys present. *)

JStr(x)  == [t |-> "string", v |-> x]
JNum(n)  == [t |-> "number", v |-> n]
JBool(b) == [t |-> "boolean", v |-> b]
JArr(a)  == [t |-> "array", v |-> a]
JObj(o)  == [t |-> "object", v |-> o]
JNull      == [t |-> "null", v |-> "null"]
undefined  == [t |-> "undefined", v |-> "undefined"]

\* obj.key, undefined when the key is absent
Get(obj, key) == IF key \in DOMAIN obj THEN obj[key] ELSE undefined

\* JavaScript truthiness: !x is ~truthy(x)
truthy(j) ==
    CASE j.t = "undefined" -> FALSE
      [] j.t = "null"      -> FALSE
      [] j.t = "string"    -> j.v # ""
      [] j.t = "number"    -> j.v # 0
      [] j.t = "boolean"   -> j.v
      [] OTHER             -> TRUE

\* The strings of a list as a JSON array of strings.
JStrings(list) == JArr([i \in 1..Len(list) |-> JStr(list[i])])

\* String.prototype.startsWith
startsWith(str, prefix) ==
    Len(str) >= Len(prefix) /\ SubSeq(str, 1, Len(prefix)) = prefix

\* String.prototype.substring(n)
substring(str, n) == SubSeq(str, n + 1, Len(str))

-----------------------------------------------------------------------------
(* Routing: routes/index.ts, routes/ai.routes.ts, routes/events.routes.ts. *)
(* A router is its list of layers in declaration order; a request runs the *)
(* handlers of the layers that match it, in that order, each handler       *)
(* either answering or passing the request on with next().                 *)

Layer(kind, method, pattern, handler) ==
    [kind |-> kind, method |-> method, pattern |-> pattern, handler |-> handler]

aiRoutes_insightsOpen ==
    << Layer("route", "POST", <<"test-parse">>, "parseNaturalLanguage"),
       Layer("route", "POST", <<"insights">>, "generateDayInsights"),
       Layer("use", "*", <<>>, "verifySupabaseToken"),
       Layer("route", "POST", <<"parse-schedule">>, "parseNaturalLanguage"),
       Layer("route", "POST", <<"parse-schedule-pro">>, "parseNaturalLanguageGemini"),
       Layer("route", "POST", <<"parse-schedule-image">>, "parseScheduleFromImage"),
       Layer("route", "POST", <<"parse-schedule-images">>, "parseScheduleFromImages"),
       Layer("route", "POST", <<"analytics">>, "generateAnalytics"),
       Layer("route", "POST", <<"task-insight">>, "generateTaskInsight") >>

aiRoutes ==
    << Layer("route", "POST", <<"test-parse">>, "parseNaturalLanguage"),
       Layer("use", "*", <<>>, "verifySupabaseToken"),
       Layer("route", "POST", <<"insights">>, "generateDayInsights"),
       Layer("route", "POST", <<"parse-schedule">>, "parseNaturalLanguage"),
       Layer("route", "POST", <<"parse-schedule-pro">>, "parseNaturalLanguageGemini"),
       Layer("route", "POST", <<"parse-schedule-image">>, "parseScheduleFromImage"),
       Layer("route", "POST", <<"parse-schedule-images">>, "parseScheduleFromImages"),
       Layer("route", "POST", <<"analytics">>, "generateAnalytics"),
       Layer("route", "POST", <<"task-insight">>, "generateTaskInsight") >>

eventsRoutes ==
    << Layer("use", "*", <<>>, "verifySupabaseToken"),
       Layer("route", "GET", <<>>, "getEvents"),
       Layer("route", "POST", <<>>, "createEvent"),
       Layer("route", "POST", <<"batch">>, "batchSyncEvents"),
       Layer("route", "PUT", <<":id">>, "updateEvent"),
       Layer("route", "DELETE", <<":id">>, "deleteEvent"),
       Layer("route", "DELETE", <<"all">>, "deleteAllEvents") >>

\* A route pattern matches a path segment by segment, ":id" matching any one.
patternMatches(pattern, path) ==
    /\ Len(pattern) = Len(path)
    /\ \A i \in 1..Len(pattern) : pattern[i] = ":id" \/ pattern[i] = path[i]

layerMatches(layer, method, path) ==
    \/ layer.kind = "use"
    \/ layer.method = method /\ patternMatches(layer.pattern, path)

\* The handlers of a router's matching layers, in declaration order.
routerStack(layers, method, path) ==
    LET matching(layer) == layerMatches(layer, method, path)
        hit == SelectSeq(layers, matching)
    IN  [i \in 1..Len(hit) |-> hit[i].handler]

\* routes/index.ts: GET /health, then the /ai and the /events routers.
routes(method, path) ==
    IF path = <<>> THEN <<>>
    ELSE (IF method = "GET" /\ path = <<"health">> THEN <<"health">> ELSE <<>>)
         \o (IF Head(path) = "ai" THEN routerStack(aiRoutes, method, Tail(path)) ELSE <<>>)
         \o (IF Head(path) = "events" THEN routerStack(eventsRoutes, method, Tail(path))
             ELSE <<>>)

-----------------------------------------------------------------------------
(* The external collaborators                                              *)

\* The auth provider knows which user a token was issued to; whether it
\* still accepts the token is the variable session.
Tokens == {"t1", "t2"}

tokenUser(token) == IF token = "t1" THEN "u1" ELSE "u2"

\* The tokens whose session ends and is renewed while the model runs; the
\* other token stays accepted throughout.
ExpiringTokens == {"t1"}

\* The events table gives every inserted row a fresh id; the model stops
\* inserting after MaxIds rows.
MaxIds == 2

rowId(n) == "e" \o ToString(n)

-----------------------------------------------------------------------------
(* A request being served                                                  *)

NoError == [name |-> "", code |-> ""]

IdleReq ==
    [pc            |-> "idle",
     method        |-> "",
     path          |-> <<>>,
     authorization |-> undefined,
     query         |-> <<>>,
     body          |-> <<>>,
     stack         |-> <<>>,   \* the matching handlers not yet run
     ran           |-> <<>>,   \* the handlers run so far, in order
     user          |-> "",     \* req.user.id once the token was verified
     calls         |-> <<>>,   \* the outbound calls issued so far, in order
     events        |-> undefined, \* what the store query of the handler returned
     reply         |-> undefined, \* what the model replied
     sent          |-> 0,      \* number of responses written
     thrown        |-> NoError, \* the exception passed to next(error), if any
     before        |-> {},     \* the caller's rows when batchSyncEvents started
     status        |-> 0,
     json          |-> <<>>]

\* res.status(status).json(json)
respond(rq, status, json) ==
    [rq EXCEPT !.pc = "done", !.status = status, !.json = json, !.sent = @ + 1]

\* Suspend at an await on an outbound call.
await(rq, pc, call) == [rq EXCEPT !.pc = pc, !.calls = Append(@, call)]

errorHandler_always500(rq0, error) ==
    LET rq == [rq0 EXCEPT !.thrown = error]
    IN  respond(rq, 500, [error |-> "Internal server error"])

\* middleware/errorHandler.ts
errorHandler(rq0, error) ==
  LET rq == [rq0 EXCEPT !.thrown = error] IN
    IF error.name = "ZodError"
    THEN respond(rq, 400, [error |-> "Validation error", details |-> <<>>])
    ELSE IF error.code = "P2002"
    THEN respond(rq, 409, [error   |-> "Resource already exists",
                           details |-> "A record with this unique field already exists"])
    ELSE IF error.code = "P2025"
    THEN respond(rq, 404, [error |-> "Resource not found"])
    ELSE IF error.name = "JsonWebTokenError"
    THEN respond(rq, 401, [error |-> "Invalid token"])
    ELSE IF error.name = "TokenExpiredError"
    THEN respond(rq, 401, [error |-> "Token expired"])
    ELSE respond(rq, 500, [error |-> "Internal server error"])

\* What a failing outbound call throws: a network or SDK error, and the
\* TypeError of using a null result.
FetchError == [name |-> "Error", code |-> ""]
TypeError  == [name |-> "TypeError", code |-> ""]

\* The canned insights of a day without events.
emptyDayInsights ==
    JStrings(<< "No events scheduled for this day. Consider planning your day for better productivity!",
                "A blank slate - perfect opportunity to set meaningful goals.",
                "Time blocking can help structure your unscheduled day.",
                "Consider adding at least 2-3 focused work blocks.",
                "Don't forget to schedule breaks and personal time." >>)

emptyDayVisualInsights ==
    [energyHeatmap   |-> <<>>,
     focusBlocks     |-> <<>>,
     workLifeBalance |-> [work |-> 0, personal |-> 0, health |-> 0, other |-> 0]]

\* The insights substituted when the model's reply does not parse.
fallbackInsights ==
    JStrings(<< "Your schedule shows a good balance of activities.",
                "Consider adding buffer time between tasks.",
                "Mix focused work with breaks for optimal productivity.",
                "Track your energy levels to optimize task timing.",
                "Review your schedule weekly to identify patterns." >>)

-----------------------------------------------------------------------------
(* Validation and field mapping of controllers/events.controller.ts        *)

isDigit(c) == c \in {"0", "1", "2", "3", "4", "5", "6", "7", "8", "9"}

\* /^\d{4}-\d{2}-\d{2}$/
isDateString(str) ==
    /\ Len(str) = 10
    /\ \A i \in 1..10 :
         IF i \in {5, 8} THEN SubSeq(str, i, i) = "-" ELSE isDigit(SubSeq(str, i, i))

isStringArray(j) == j.t = "array" /\ \A i \in 1..Len(j.v) : j.v[i].t = "string"

isNumberArray(j) == j.t = "array" /\ \A i \in 1..Len(j.v) : j.v[i].t = "number"

EventKeys ==
    {"title", "description", "startTime", "endTime", "date", "emoji", "colorHex",
     "category", "participants", "isCompleted", "notificationSettings"}

RequiredEventKeys == {"title", "startTime", "endTime", "date"}

\* One field of EventSchema.
fieldValid(key, j) ==
    CASE key = "title" -> j.t = "string" /\ Len(j.v) >= 1
      [] key \in {"description", "emoji", "colorHex", "category"} -> j.t = "string"
      [] key \in {"startTime", "endTime"} ->
            j.t = "number" /\ j.v >= Hours(0, 0) /\ j.v <= Hours(24, 0)
      [] key = "date" -> j.t = "string" /\ isDateString(j.v)
      [] key = "participants" -> isStringArray(j)
      [] key = "isCompleted" -> j.t = "boolean"
      [] key = "notificationSettings" ->
            /\ j.t = "object"
            /\ {"enabled", "minutesBefore", "notificationIds"} \subseteq DOMAIN j.v
            /\ j.v.enabled.t = "boolean"
            /\ isNumberArray(j.v.minutesBefore)
            /\ isStringArray(j.v.notificationIds)

\* EventSchema.safeParse(body).success; partial for EventSchema.partial().
eventSchemaAccepts(body, partial) ==
    /\ partial \/ RequiredEventKeys \subseteq DOMAIN body
    /\ \A key \in DOMAIN body \cap EventKeys : fieldValid(key, body[key])

\* validationResult.data: the keys of the schema, the others are stripped.
eventSchemaData(body) == [key \in DOMAIN body \cap EventKeys |-> body[key]]

\* BatchEventSchema.safeParse(body).success
batchSchemaAccepts(body) ==
    /\ "events" \in DOMAIN body
    /\ body.events.t = "array"
    /\ \A i \in 1..Len(body.events.v) :
         body.events.v[i].t = "object" /\ eventSchemaAccepts(body.events.v[i].v, FALSE)
    /\ "clearExisting" \in DOMAIN body => body.clearExisting.t = "boolean"

\* The plain value of a validated field.
plain(j) ==
    CASE j.t = "array"  -> [i \in 1..Len(j.v) |-> j.v[i].v]
      [] j.t = "object" -> [enabled         |-> j.v.enabled.v,
                            minutesBefore   |-> [i \in 1..Len(j.v.minutesBefore.v) |->
                                                    j.v.minutesBefore.v[i].v],
                            notificationIds |-> [i \in 1..Len(j.v.notificationIds.v) |->
                                                    j.v.notificationIds.v[i].v]]
      [] OTHER          -> j.v

\* eventData.key || fallback
orElse(data, key, fallback) ==
    IF truthy(Get(data, key)) THEN plain(data[key]) ELSE fallback

\* dbEvent of createEvent and batchSyncEvents, with the id the table gives it.
dbEvent(id, userId, data) ==
    [id                    |-> id,
     user_id               |-> userId,
     title                 |-> data.title.v,
     description           |-> orElse(data, "description", null),
     start_time            |-> data.startTime.v,
     end_time              |-> data.endTime.v,
     date                  |-> data.date.v,
     emoji                 |-> orElse(data, "emoji", null),
     color_hex             |-> orElse(data, "colorHex", null),
     category              |-> orElse(data, "category", null),
     participants          |-> orElse(data, "participants", <<>>),
     is_completed          |-> orElse(data, "isCompleted", FALSE),
     notification_settings |-> orElse(data, "notificationSettings",
                                      defaultNotificationSettings)]

\* updates.key !== undefined ? updates.key : the stored value
updated(updates, key, old) == IF key \in DOMAIN updates THEN plain(updates[key]) ELSE old

\* The row after .update(dbUpdates)
applyUpdates(row, updates) ==
    [id                    |-> row.id,
     user_id               |-> row.user_id,
     title                 |-> updated(updates, "title", row.title),
     description           |-> updated(updates, "description", row.description),
     start_time            |-> updated(updates, "startTime", row.start_time),
     end_time              |-> updated(updates, "endTime", row.end_time),
     date                  |-> updated(updates, "date", row.date),
     emoji                 |-> updated(updates, "emoji", row.emoji),
     color_hex             |-> updated(updates, "colorHex", row.color_hex),
     category              |-> updated(updates, "category", row.category),
     participants          |-> updated(updates, "participants", row.participants),
     is_completed          |-> updated(updates, "isCompleted", row.is_completed),
     notification_settings |-> updated(updates, "notificationSettings",
                                       row.notification_settings)]

\* The camelCase event of a stored row (createEvent, updateEvent, batchSyncEvents).
transformedEvent(row) ==
    [id                   |-> row.id,
     userId               |-> row.user_id,
     title                |-> row.title,
     description          |-> row.description,
     startTime            |-> row.start_time,
     endTime              |-> row.end_time,
     date                 |-> row.date,
     emoji                |-> row.emoji,
     colorHex             |-> row.color_hex,
     category             |-> row.category,
     participants         |-> row.participants,
     isCompleted          |-> row.is_completed,
     notificationSettings |-> row.notification_settings]

transformedEvents(rows) == [i \in 1..Len(rows) |-> transformedEvent(rows[i])]

-----------------------------------------------------------------------------
(* The handlers up to their first outbound call                            *)

unauthorized(rq) == respond(rq, 401, [error |-> "Unauthorized"])

validationFailed(rq) == respond(rq, 400, [error |-> "Validation failed"])

failure(rq, status, message) == respond(rq, status, [success |-> FALSE, error |-> message])

\* !prompt || typeof prompt !== 'string'
promptMissing(body) ==
    ~truthy(Get(body, "prompt")) \/ Get(body, "prompt").t # "string"

\* !env.GEMINI_API_KEY
geminiKeyMissing == env.GEMINI_API_KEY = ""

\* !env.GEMINI_API_KEY || env.GEMINI_API_KEY === 'your_gemini_api_key_here'
geminiKeyUnusable == geminiKeyMissing \/ env.GEMINI_API_KEY = "your_gemini_api_key_here"

\* middleware/supabaseAuth.ts, up to supabase.auth.getUser(token)
enterVerifySupabaseToken(rq) ==
    LET authHeader == rq.authorization
    IN  IF ~truthy(authHeader) \/ ~startsWith(authHeader.v, "Bearer ")
        THEN failure(rq, 401, "Missing or invalid authorization header")
        ELSE await(rq, "verifySupabaseToken:getUser", "auth.getUser")

enterGenerateDayInsights(rq) ==
    IF ~truthy(Get(rq.body, "date"))
    THEN failure(rq, 400, "Date is required")
    ELSE await(rq, "generateDayInsights:select", "store.select")

enterParseNaturalLanguage(rq) ==
    IF promptMissing(rq.body)
    THEN failure(rq, 400, "Prompt is required and must be a string")
    ELSE await(rq, "parseNaturalLanguage:groq", "groq")

enterParseNaturalLanguageGemini_bodyFirst(rq) ==
    IF promptMissing(rq.body)
    THEN failure(rq, 400, "Prompt is required and must be a string")
    ELSE IF geminiKeyMissing
    THEN failure(rq, 503, "Gemini Pro API is not configured. Please add GEMINI_API_KEY to your environment variables.")
    ELSE await(rq, "parseNaturalLanguageGemini:gemini", "gemini")

enterParseNaturalLanguageGemini(rq) ==
    IF geminiKeyMissing
    THEN failure(rq, 503, "Gemini Pro API is not configured. Please add GEMINI_API_KEY to your environment variables.")
    ELSE IF promptMissing(rq.body)
    THEN failure(rq, 400, "Prompt is required and must be a string")
    ELSE await(rq, "parseNaturalLanguageGemini:gemini", "gemini")

enterParseScheduleFromImage(rq) ==
    LET image == Get(rq.body, "image")
    IN  IF geminiKeyUnusable
        THEN failure(rq, 503, "Gemini API is required for image processing. Please add GEMINI_API_KEY to your environment variables.")
        ELSE IF ~truthy(image) \/ image.t # "string"
        THEN failure(rq, 400, "Image (base64 encoded) is required")
        ELSE await(rq, "parseScheduleFromImage:gemini", "gemini")

enterParseScheduleFromImages(rq) ==
    LET images == Get(rq.body, "images")
    IN  IF geminiKeyUnusable
        THEN failure(rq, 503, "Gemini API is required for image processing. Please add GEMINI_API_KEY to your environment variables.")
        ELSE IF ~truthy(images) \/ images.t # "array" \/ Len(images.v) = 0
        THEN failure(rq, 400, "At least one image (base64 encoded) is required")
        ELSE IF Len(images.v) > 3
        THEN failure(rq, 400, "Maximum 3 images allowed")
        ELSE IF \E i \in 1..Len(images.v) : images.v[i].t # "string"
        \* img.replace is not a function: caught by the handler's catch
        THEN failure(rq, 500, "Failed to parse images. Please ensure the images contain clear timetables or schedules.")
        ELSE await(rq, "parseScheduleFromImages:gemini", "gemini")

enterGenerateAnalytics(rq) ==
    IF ~truthy(Get(rq.body, "startDate")) \/ ~truthy(Get(rq.body, "endDate"))
    THEN failure(rq, 400, "startDate and endDate are required")
    ELSE await(rq, "generateAnalytics:select", "store.select")

enterGenerateTaskInsight(rq) ==
    IF \/ ~truthy(Get(rq.body, "title"))
       \/ Get(rq.body, "startTime").t = "undefined"
       \/ Get(rq.body, "endTime").t = "undefined"
    THEN failure(rq, 400, "title, startTime, and endTime are required")
    ELSE await(rq, "generateTaskInsight:groq", "groq")

enterGetEvents(rq) ==
    IF rq.user = "" THEN unauthorized(rq)
    ELSE await(rq, "getEvents:select", "store.select")

enterCreateEvent_noValidation(rq) ==
    IF rq.user = "" THEN unauthorized(rq)
    ELSE await(rq, "createEvent:insert", "store.insert")

enterCreateEvent(rq) ==
    IF rq.user = "" THEN unauthorized(rq)
    ELSE IF ~eventSchemaAccepts(rq.body, FALSE) THEN validationFailed(rq)
    ELSE await(rq, "createEvent:insert", "store.insert")

enterUpdateEvent(rq) ==
    IF rq.user = "" THEN unauthorized(rq)
    ELSE IF ~eventSchemaAccepts(rq.body, TRUE) THEN validationFailed(rq)
    ELSE await(rq, "updateEvent:update", "store.update")

enterDeleteEvent(rq) ==
    IF rq.user = "" THEN unauthorized(rq)
    ELSE await(rq, "deleteEvent:delete", "store.delete")

enterBatchSyncEvents(rq0) ==
  LET rq == [rq0 EXCEPT !.before = {row \in store : row.user_id = rq0.user}] IN
    IF rq.user = "" THEN unauthorized(rq)
    ELSE IF ~batchSchemaAccepts(rq.body) THEN validationFailed(rq)
    ELSE IF truthy(Get(rq.body, "clearExisting"))
    THEN await(rq, "batchSyncEvents:delete", "store.delete")
    ELSE await(rq, "batchSyncEvents:insert", "store.insert")

enterDeleteAllEvents(rq) ==
    IF rq.user = "" THEN unauthorized(rq)
    ELSE await(rq, "deleteAllEvents:delete", "store.delete")

\* GET /health
health(rq) ==
    respond(rq, 200, [success |-> TRUE, message |-> "DayRhythm AI Backend is running",
                      service |-> "AI & Analytics Service"])

\* Express runs the next matching handler; with none left the request is
\* answered 404 by the framework.
enter(rq0) ==
    IF rq0.stack = <<>> THEN respond(rq0, 404, [error |-> "Not Found"])
    ELSE LET handler == Head(rq0.stack)
             rq == [rq0 EXCEPT !.stack = Tail(@), !.ran = Append(@, handler)]
         IN  CASE handler = "health"                     -> health(rq)
               [] handler = "verifySupabaseToken"        -> enterVerifySupabaseToken(rq)
               [] handler = "generateDayInsights"        -> enterGenerateDayInsights(rq)
               [] handler = "parseNaturalLanguage"       -> enterParseNaturalLanguage(rq)
               [] handler = "parseNaturalLanguageGemini" -> enterParseNaturalLanguageGemini(rq)
               [] handler = "parseScheduleFromImage"     -> enterParseScheduleFromImage(rq)
               [] handler = "parseScheduleFromImages"    -> enterParseScheduleFromImages(rq)
               [] handler = "generateAnalytics"          -> enterGenerateAnalytics(rq)
               [] handler = "generateTaskInsight"        -> enterGenerateTaskInsight(rq)
               [] handler = "getEvents"                  -> enterGetEvents(rq)
               [] handler = "createEvent"                -> enterCreateEvent(rq)
               [] handler = "updateEvent"                -> enterUpdateEvent(rq)
               [] handler = "deleteEvent"                -> enterDeleteEvent(rq)
               [] handler = "batchSyncEvents"            -> enterBatchSyncEvents(rq)
               [] handler = "deleteAllEvents"            -> enterDeleteAllEvents(rq)

-----------------------------------------------------------------------------
(* Text of model replies                                                   *)

isSpace(c) == c \in {" ", "\n", "\t"}

\* String.prototype.trim
RECURSIVE trimStart(_)
trimStart(str) ==
    IF Len(str) > 0 /\ isSpace(SubSeq(str, 1, 1)) THEN trimStart(SubSeq(str, 2, Len(str)))
    ELSE str

RECURSIVE trimEnd(_)
trimEnd(str) ==
    IF Len(str) > 0 /\ isSpace(SubSeq(str, Len(str), Len(str)))
    THEN trimEnd(SubSeq(str, 1, Len(str) - 1))
    ELSE str

trim(str) == trimEnd(trimStart(str))

\* str.replace(/<fence>\n?/g, ''): every occurrence of the fence, with the
\* line break after it if there is one, is removed.
RECURSIVE removeFences(_, _)
removeFences(str, fence) ==
    IF Len(str) = 0 THEN ""
    ELSE IF startsWith(str, fence)
    THEN LET rest == SubSeq(str, Len(fence) + 1, Len(str))
         IN  removeFences(IF startsWith(rest, "\n") THEN SubSeq(rest, 2, Len(rest)) ELSE rest,
                          fence)
    ELSE SubSeq(str, 1, 1) \o removeFences(SubSeq(str, 2, Len(str)), fence)

\* The markdown fences of a Gemini reply are stripped before parsing (the
\* backtick of the source is written ' in the model).
stripFences(content) ==
    LET jsonContent == trim(content)
    IN  IF startsWith(jsonContent, "'''json")
        THEN removeFences(removeFences(jsonContent, "'''json"), "'''")
        ELSE IF startsWith(jsonContent, "'''")
        THEN removeFences(jsonContent, "'''")
        ELSE jsonContent

FiveStrings == JStrings(<<"a", "b", "c", "d", "e">>)

ParsedSchedule ==
    JArr(<< JObj([title |-> JStr("Gym"), startTime |-> JNum(Hours(18, 0)),
                  endTime |-> JNum(Hours(19, 0)), date |-> JStr("2025-10-25")]) >>)

\* JSON.parse on the replies of the model: the parsed value, or ok = FALSE
\* for a SyntaxError.
JSONparse(text) ==
    CASE text = "[\"a\",\"b\",\"c\",\"d\",\"e\"]" -> [ok |-> TRUE, value |-> FiveStrings]
      [] text = "[\"a\"]" -> [ok |-> TRUE, value |-> JStrings(<<"a">>)]
      [] text = "[\"a\",\"b\",\"c\",\"d\",\"e\",\"f\"]" ->
            [ok |-> TRUE, value |-> JStrings(<<"a", "b", "c", "d", "e", "f">>)]
      [] text = "[]" -> [ok |-> TRUE, value |-> JArr(<<>>)]
      [] text = "[1,2,3,4,5]" ->
            [ok |-> TRUE, value |-> JArr(<<JNum(1), JNum(2), JNum(3), JNum(4), JNum(5)>>)]
      [] text = "{\"insights\":[]}" ->
            [ok |-> TRUE, value |-> JObj([insights |-> JArr(<<>>)])]
      [] text = "42" -> [ok |-> TRUE, value |-> JNum(42)]
      [] text \in {"[{\"title\":\"Gym\",\"startTime\":18.0,\"endTime\":19.0,\"date\":\"2025-10-25\"}]",
                   "[{\"title\":\"Gym\",\"startTime\":18.0,\"endTime\":19.0,\"date\":\"2025-10-25\"}]\n"} ->
            [ok |-> TRUE, value |-> ParsedSchedule]
      [] OTHER -> [ok |-> FALSE, value |-> undefined]

\* completion.choices[0].message.content: a text, or null.
InsightReplies ==
    {JNull, JStr(""), JStr("[\"a\",\"b\",\"c\",\"d\",\"e\"]"), JStr("[\"a\"]"),
     JStr("[\"a\",\"b\",\"c\",\"d\",\"e\",\"f\"]"), JStr("[1,2,3,4,5]"),
     JStr("{\"insights\":[]}"), JStr("42"),
     JStr("Here are 5 insights: [\"a\",\"b\",\"c\",\"d\",\"e\"]")}

ScheduleReplies ==
    {JNull,
     JStr("[{\"title\":\"Gym\",\"startTime\":18.0,\"endTime\":19.0,\"date\":\"2025-10-25\"}]"),
     JStr("Sure! Gym at 6pm.")}

GeminiReplies ==
    {"[{\"title\":\"Gym\",\"startTime\":18.0,\"endTime\":19.0,\"date\":\"2025-10-25\"}]",
     "'''json\n[{\"title\":\"Gym\",\"startTime\":18.0,\"endTime\":19.0,\"date\":\"2025-10-25\"}]\n'''",
     "I could not find a schedule."}

\* (the bullet character U+2022 of the source is written * in the model)
TaskInsightReplies ==
    {JNull, JStr(""), JStr(" * Start early\n* Keep it short \n")}

-----------------------------------------------------------------------------
(* Queries on the events table                                             *)

digit(c) ==
    CASE c = "0" -> 0 [] c = "1" -> 1 [] c = "2" -> 2 [] c = "3" -> 3 [] c = "4" -> 4
      [] c = "5" -> 5 [] c = "6" -> 6 [] c = "7" -> 7 [] c = "8" -> 8 [] c = "9" -> 9

RECURSIVE number(_)
number(digits) ==
    IF Len(digits) = 0 THEN 0
    ELSE 10 * number(SubSeq(digits, 1, Len(digits) - 1))
         + digit(SubSeq(digits, Len(digits), Len(digits)))

\* The position of a YYYY-MM-DD date in calendar order.
dateOrder(date) ==
    10000 * number(SubSeq(date, 1, 4)) + 100 * number(SubSeq(date, 6, 7))
        + number(SubSeq(date, 9, 10))

\* The ways the table can return the rows of a set under ORDER BY: rows
\* that compare equal come in any order.
ordered(rows, inOrder(_, _)) ==
    {list \in [1..Cardinality(rows) -> rows] :
        /\ \A i, j \in DOMAIN list : i # j => list[i] # list[j]
        /\ \A i, j \in DOMAIN list : i < j => inOrder(list[i], list[j])}

byStartTime(a, b) == a.start_time <= b.start_time

byDate(a, b) == dateOrder(a.date) <= dateOrder(b.date)

byDateThenStartTime(a, b) ==
    \/ dateOrder(a.date) < dateOrder(b.date)
    \/ a.date = b.date /\ a.start_time <= b.start_time

\* .eq('user_id', userId).eq('date', date)
rowsOfDay(userId, date) == {row \in store : row.user_id = userId /\ row.date = date}

\* .eq('user_id', userId).gte('date', startDate).lte('date', endDate)
rowsInRange(userId, startDate, endDate) ==
    {row \in store : /\ row.user_id = userId
                     /\ dateOrder(row.date) >= dateOrder(startDate)
                     /\ dateOrder(row.date) <= dateOrder(endDate)}

\* The rows getEvents asks for: the caller's, filtered by ?date or by
\* ?startDate / ?endDate.
rowsOfQuery(userId, query) ==
    {row \in store :
        /\ row.user_id = userId
        /\ IF truthy(Get(query, "date")) THEN row.date = query.date.v
           ELSE /\ truthy(Get(query, "startDate"))
                     => dateOrder(row.date) >= dateOrder(query.startDate.v)
                /\ truthy(Get(query, "endDate"))
                     => dateOrder(row.date) <= dateOrder(query.endDate.v)}

rowsOfId_anyUser(userId, id) == {row \in store : row.id = id}

\* .eq('id', id).eq('user_id', userId)
rowsOfId(userId, id) == {row \in store : row.id = id /\ row.user_id = userId}

\* .eq('user_id', userId)
rowsOfUser(userId) == {row \in store : row.user_id = userId}

-----------------------------------------------------------------------------
(* generateDayInsights after its awaits                                    *)

isEmptyDay_nullOnly(events) == events.t = "null"

\* !events || events.length === 0
isEmptyDay(events) == events.t = "null" \/ Len(events.v) = 0

\* The insights of the response, from completion.choices[0].message.content
parsedInsights(reply) ==
    LET content == IF truthy(reply) THEN reply.v ELSE "[]"
        parsed  == JSONparse(content)
    IN  IF parsed.ok THEN parsed.value ELSE fallbackInsights

insightsAfterSelect(rq, events) ==
    IF isEmptyDay(events)
    THEN respond([rq EXCEPT !.events = events], 200,
                 [success |-> TRUE,
                  data    |-> [insights       |-> emptyDayInsights,
                               visualInsights |-> emptyDayVisualInsights]])
    ELSE await([rq EXCEPT !.events = events], "generateDayInsights:groq", "groq")

insightsAfterGroq(rq, reply) ==
    respond([rq EXCEPT !.reply = reply], 200,
            [success |-> TRUE,
             data    |-> [insights       |-> parsedInsights(reply),
                          visualInsights |-> calculateVisualInsights(rq.events.v)]])

-----------------------------------------------------------------------------
(* The other /ai handlers after their awaits                               *)

\* parseNaturalLanguage: content || '[]', then JSON.parse
scheduleAfterGroq(rq, reply) ==
    LET content == IF truthy(reply) THEN reply.v ELSE "[]"
        parsed  == JSONparse(content)
    IN  IF parsed.ok
        THEN respond([rq EXCEPT !.reply = reply], 200,
                     [success |-> TRUE, data |-> [events |-> parsed.value]])
        ELSE failure([rq EXCEPT !.reply = reply], 500, "Failed to parse AI response")

\* The three Gemini handlers: response.text(), fences stripped, JSON.parse
geminiParseError(handler) ==
    CASE handler = "parseNaturalLanguageGemini" -> "Failed to parse AI response"
      [] handler = "parseScheduleFromImage" ->
            "Failed to parse AI response. The image might not contain a clear schedule or timetable."
      [] handler = "parseScheduleFromImages" ->
            "Failed to parse AI response. The images might not contain clear schedules or timetables."

geminiCallError(handler) ==
    CASE handler = "parseNaturalLanguageGemini" -> "Failed to parse natural language with Gemini"
      [] handler = "parseScheduleFromImage" ->
            "Failed to parse image. Please ensure the image contains a clear timetable or schedule."
      [] handler = "parseScheduleFromImages" ->
            "Failed to parse images. Please ensure the images contain clear timetables or schedules."

scheduleAfterGemini(rq, handler, content) ==
    LET parsed == JSONparse(stripFences(content))
    IN  IF parsed.ok
        THEN respond([rq EXCEPT !.reply = JStr(content)], 200,
                     [success |-> TRUE, data |-> [events |-> parsed.value]])
        ELSE failure([rq EXCEPT !.reply = JStr(content)], 500, geminiParseError(handler))

\* Math.round(x * 10) / 10 of x = num / den, held in tenths
roundTenths(num, den) == round(10 * num, den)

averageEventsPerDay_perEvent(rows) == roundTenths(Len(rows), Len(rows))

\* totalEvents / new Set(events.map(e => e.date)).size, rounded to a tenth
averageEventsPerDay(rows) ==
    roundTenths(Len(rows), Cardinality({rows[i].date : i \in 1..Len(rows)}))

\* generateAnalytics (totalHours and averageEventsPerDay are held in tenths)
analyticsAfterSelect(rq, events) ==
    IF isEmptyDay(events)
    THEN respond([rq EXCEPT !.events = events], 200,
                 [success |-> TRUE,
                  data    |-> [summary             |-> "No events found in this date range.",
                               totalEvents         |-> 0,
                               totalHours          |-> 0,
                               averageEventsPerDay |-> 0]])
    ELSE LET rows        == events.v
             totalEvents == Len(rows)
             hours       == SumSeq([i \in 1..Len(rows) |->
                                       rows[i].end_time - rows[i].start_time])
             uniqueDates == Cardinality({rows[i].date : i \in 1..Len(rows)})
         IN  respond([rq EXCEPT !.events = events], 200,
                     [success |-> TRUE,
                      data    |-> [summary             |-> "Analyzed " \o ToString(totalEvents)
                                                           \o " events across "
                                                           \o ToString(uniqueDates) \o " days",
                                   totalEvents         |-> totalEvents,
                                   totalHours          |-> roundTenths(hours, Hours(1, 0)),
                                   averageEventsPerDay |-> averageEventsPerDay(rows),
                                   dateRange           |-> [startDate |-> rq.body.startDate.v,
                                                            endDate   |-> rq.body.endDate.v]]])

\* Number.prototype.toFixed(1) of a duration given in quarter hours: the
\* nearest tenth, a tie going away from zero.
toFixed1(quarters) ==
    LET n == (20 * Abs(quarters) + 4) \div 8
    IN  (IF quarters < 0 THEN "-" ELSE "") \o ToString(n \div 10) \o "." \o ToString(n % 10)

generateFallbackTaskInsight_le18(hour, duration) ==
    IF hour < 10
    THEN "* Morning energy peak - tackle hardest parts first\n* " \o toFixed1(duration)
         \o "h duration works well for deep focus"
    ELSE IF hour < 14
    THEN "* Mid-day slot - break into 25min focused chunks\n* Good timing to build on morning momentum"
    ELSE IF hour <= 18
    THEN "* Afternoon energy dip - pair with quick snack break\n* " \o toFixed1(duration)
         \o "h duration fits well before evening wind-down"
    ELSE "* Evening hours - minimize distractions for best results\n* Create comfortable environment to maintain engagement"

\* (the bullet character U+2022 of the source is written * in the model)
generateFallbackTaskInsight(hour, duration) ==
    IF hour < 10
    THEN "* Morning energy peak - tackle hardest parts first\n* " \o toFixed1(duration)
         \o "h duration works well for deep focus"
    ELSE IF hour < 14
    THEN "* Mid-day slot - break into 25min focused chunks\n* Good timing to build on morning momentum"
    ELSE IF hour < 18
    THEN "* Afternoon energy dip - pair with quick snack break\n* " \o toFixed1(duration)
         \o "h duration fits well before evening wind-down"
    ELSE "* Evening hours - minimize distractions for best results\n* Create comfortable environment to maintain engagement"

\* Math.floor(startTime), in hours
startHourOf(body) == body.startTime.v \div Hours(1, 0)

durationOf(body) == body.endTime.v - body.startTime.v

taskInsightAfterGroq(rq, reply) ==
    LET insight == IF truthy(reply) THEN reply.v
                   ELSE generateFallbackTaskInsight(startHourOf(rq.body), durationOf(rq.body))
    IN  respond([rq EXCEPT !.reply = reply], 200,
                [success |-> TRUE, data |-> [insight |-> trim(insight)]])

\* The catch block of generateTaskInsight
taskInsightAfterThrow(rq) ==
    respond(rq, 200,
            [success |-> TRUE,
             data    |-> [insight |-> generateFallbackTaskInsight(startHourOf(rq.body),
                                                                  durationOf(rq.body))]])

-----------------------------------------------------------------------------
(* The requests of the model                                               *)

Request(method, path, query, body) ==
    [method |-> method, path |-> path, query |-> query, body |-> body]

Day1 == "2025-10-25"
Day2 == "2025-10-26"

\* No header, a header of another scheme, and a bearer header per token.
AuthHeaders == {undefined, JStr("Basic t1")} \cup {JStr("Bearer " \o t) : t \in Tokens}

standup ==
    [title |-> JStr("Standup"), startTime |-> JNum(Hours(9, 0)),
     endTime |-> JNum(Hours(9, 2)), date |-> JStr(Day1), category |-> JStr("Meeting")]

\* ends before it starts, has an empty description and a key outside the schema
gym ==
    [title |-> JStr("Gym"), startTime |-> JNum(Hours(18, 0)),
     endTime |-> JNum(Hours(17, 0)), date |-> JStr(Day2), description |-> JStr(""),
     user_id |-> JStr("u2")]

untitled == [standup EXCEPT !.title = JStr("")]

EventIds == {rowId(n) : n \in 1..MaxIds}

AiRequests ==
    {Request("GET", <<"health">>, <<>>, <<>>)}
    \cup {Request("POST", <<"ai", "insights">>, <<>>, body) :
            body \in {<<>>, [date |-> JStr(Day1)]}}
    \cup {Request("POST", <<"ai", route>>, <<>>, body) :
            route \in {"test-parse", "parse-schedule", "parse-schedule-pro"},
            body \in {<<>>, [prompt |-> JNum(42)], [prompt |-> JStr("gym at 6pm")]}}
    \cup {Request("POST", <<"ai", "parse-schedule-image">>, <<>>, body) :
            body \in {<<>>, [image |-> JStr("data:image/png;base64,AAAA")]}}
    \cup {Request("POST", <<"ai", "parse-schedule-images">>, <<>>, body) :
            body \in {<<>>,
                      [images |-> JArr(<<>>)],
                      [images |-> JArr(<<JStr("AAAA")>>)],
                      [images |-> JArr(<<JNum(1)>>)],
                      [images |-> JArr(<<JStr("A"), JStr("B"), JStr("C"), JStr("D")>>)]}}
    \cup {Request("POST", <<"ai", "analytics">>, <<>>, body) :
            body \in {[startDate |-> JStr(Day1)],
                      [startDate |-> JStr(Day1), endDate |-> JStr(Day2)]}}
    \cup {Request("POST", <<"ai", "task-insight">>, <<>>, body) :
            body \in {[title |-> JStr("Review"), endTime |-> JNum(Hours(10, 0))]}
                     \cup {[title |-> JStr("Review"), startTime |-> JNum(st),
                            endTime |-> JNum(st + Hours(0, 3))] :
                              st \in {Hours(0, 0), Hours(9, 2), Hours(10, 0), Hours(13, 0),
                                      Hours(14, 0), Hours(17, 3), Hours(18, 0)}}}

EventsRequests ==
    {Request("GET", <<"events">>, query, <<>>) :
        query \in {<<>>, [date |-> JStr(Day1)], [startDate |-> JStr(Day2)]}}
    \cup {Request("POST", <<"events">>, <<>>, body) : body \in {standup, gym, untitled}}
    \cup {Request("POST", <<"events", "batch">>, <<>>, body) :
            body \in {[clearExisting |-> JBool(TRUE)],
                      [events |-> JArr(<<JObj(standup)>>)],
                      [events |-> JArr(<<JObj(gym), JObj(standup)>>),
                       clearExisting |-> JBool(TRUE)]}}
    \cup {Request("PUT", <<"events", id>>, <<>>, body) :
            id \in EventIds,
            body \in {[title |-> JStr("Renamed"), user_id |-> JStr("u2")],
                      [startTime |-> JNum(Hours(25, 0))]}}
    \cup {Request("DELETE", <<"events", id>>, <<>>, <<>>) : id \in EventIds \cup {"all"}}

Requests == AiRequests \cup EventsRequests

-----------------------------------------------------------------------------
(* Actions: a request arrives; an outbound call returns                    *)

others == <<store, inserted, session, env, accepted, viEvents, viOut, viPc>>

\* The request is parsed and runs its matching handlers up to the first
\* outbound call (or to its response).
ReceiveFrom(r, requests) ==
    /\ req[r].pc = "idle"
    /\ \E request \in requests, header \in AuthHeaders :
         req' = [req EXCEPT ![r] =
                   enter([IdleReq EXCEPT !.method = request.method,
                                         !.path = request.path,
                                         !.query = request.query,
                                         !.body = request.body,
                                         !.authorization = header,
                                         !.stack = routes(request.method, request.path)])]
    /\ UNCHANGED others

Receive(r) == ReceiveFrom(r, Requests)

\* The response has been written; the connection takes the next request.
Finish(r) ==
    /\ req[r].pc = "done"
    /\ req' = [req EXCEPT ![r] = IdleReq]
    /\ UNCHANGED others

\* supabase.auth.getUser(token), as the provider answers it now
getUser(token) ==
    IF token \in session THEN [error |-> FALSE, user |-> tokenUser(token)]
    ELSE [error |-> TRUE, user |-> ""]

verifyAfterGetUser_retry(rq, result) ==
    IF result.error \/ result.user = ""
    THEN await(rq, "verifySupabaseToken:getUser", "auth.getUser")
    ELSE enter([rq EXCEPT !.user = result.user])

\* verifySupabaseToken after supabase.auth.getUser(token)
verifyAfterGetUser(rq, result) ==
    IF result.error \/ result.user = ""
    THEN failure(rq, 401, "Invalid or expired token")
    ELSE enter([rq EXCEPT !.user = result.user])

GetUserReturns(r) ==
    LET rq    == req[r]
        token == substring(rq.authorization.v, 7)
    IN  /\ rq.pc = "verifySupabaseToken:getUser"
        /\ \/ /\ req' = [req EXCEPT ![r] = verifyAfterGetUser(rq, getUser(token))]
              /\ accepted' = IF token \in session \cap ExpiringTokens
                             THEN accepted \cup {token} ELSE accepted
           \/ /\ req' = [req EXCEPT ![r] = failure(rq, 401, "Token verification failed")]
              /\ UNCHANGED accepted
        /\ UNCHANGED <<store, inserted, session, env, viEvents, viOut, viPc>>

\* The store answers the query of generateDayInsights: rows, null, an error
\* object, or the call throws.
InsightsSelectReturns(r) ==
    LET rq == req[r]
    IN  /\ rq.pc = "generateDayInsights:select"
        /\ \E after \in
                {insightsAfterSelect(rq, JArr(rows)) :
                    rows \in ordered(rowsOfDay(rq.user, rq.body.date.v), byStartTime)}
                \cup {insightsAfterSelect(rq, JNull),
                      failure(rq, 500, "Failed to fetch events from database"),
                      failure(rq, 500, "Failed to generate insights")} :
              req' = [req EXCEPT ![r] = after]
        /\ UNCHANGED others

\* The inference call of generateDayInsights returns a completion or throws.
InsightsGroqReturns(r) ==
    LET rq == req[r]
    IN  /\ rq.pc = "generateDayInsights:groq"
        /\ \/ req' = [req EXCEPT ![r] = failure(rq, 500, "Failed to generate insights")]
           \/ \E reply \in InsightReplies :
                 req' = [req EXCEPT ![r] = insightsAfterGroq(rq, reply)]
        /\ UNCHANGED others

ParseGroqReturns(r) ==
    LET rq == req[r]
    IN  /\ rq.pc = "parseNaturalLanguage:groq"
        /\ \E after \in {scheduleAfterGroq(rq, reply) : reply \in ScheduleReplies}
                        \cup {failure(rq, 500, "Failed to parse natural language")} :
              req' = [req EXCEPT ![r] = after]
        /\ UNCHANGED others

GeminiReturns(r) ==
    LET rq      == req[r]
        handler == rq.ran[Len(rq.ran)]
    IN  /\ rq.pc \in {"parseNaturalLanguageGemini:gemini", "parseScheduleFromImage:gemini",
                      "parseScheduleFromImages:gemini"}
        /\ \/ req' = [req EXCEPT ![r] = failure(rq, 500, geminiCallError(handler))]
           \/ \E content \in GeminiReplies :
                 req' = [req EXCEPT ![r] = scheduleAfterGemini(rq, handler, content)]
        /\ UNCHANGED others

AnalyticsSelectReturns(r) ==
    LET rq == req[r]
    IN  /\ rq.pc = "generateAnalytics:select"
        /\ \E after \in
                {analyticsAfterSelect(rq, JArr(rows)) :
                    rows \in ordered(rowsInRange(rq.user, rq.body.startDate.v,
                                                 rq.body.endDate.v), byDate)}
                \cup {analyticsAfterSelect(rq, JNull),
                      failure(rq, 500, "Failed to fetch events"),
                      failure(rq, 500, "Failed to generate analytics")} :
              req' = [req EXCEPT ![r] = after]
        /\ UNCHANGED others

TaskInsightGroqReturns(r) ==
    LET rq == req[r]
    IN  /\ rq.pc = "generateTaskInsight:groq"
        /\ \E after \in {taskInsightAfterGroq(rq, reply) : reply \in TaskInsightReplies}
                        \cup {taskInsightAfterThrow(rq)} :
              req' = [req EXCEPT ![r] = after]
        /\ UNCHANGED others

\* getEvents after the query
getEventsAfterSelect(rq, events) ==
    IF events.t = "null"
    THEN errorHandler(rq, TypeError)       \* events.map of null, passed to next(error)
    ELSE respond([rq EXCEPT !.events = events], 200,
                 [success |-> TRUE,
                  events  |-> transformedEvents(events.v),
                  count   |-> Len(events.v)])

GetEventsReturns(r) ==
    LET rq == req[r]
    IN  /\ rq.pc = "getEvents:select"
        /\ \E after \in
                {getEventsAfterSelect(rq, JArr(rows)) :
                    rows \in ordered(rowsOfQuery(rq.user, rq.query), byDateThenStartTime)}
                \cup {getEventsAfterSelect(rq, JNull),
                      respond(rq, 500, [error |-> "Failed to fetch events"]),
                      errorHandler(rq, FetchError)} :
              req' = [req EXCEPT ![r] = after]
        /\ UNCHANGED others

\* The insert of createEvent returns the new row, an error object, or throws.
CreateEventReturns(r) ==
    LET rq == req[r]
    IN  /\ rq.pc = "createEvent:insert"
        /\ \/ /\ inserted < MaxIds
              /\ LET row == dbEvent(rowId(inserted + 1), rq.user, eventSchemaData(rq.body))
                 IN  /\ store' = store \cup {row}
                     /\ req' = [req EXCEPT ![r] =
                                  respond(rq, 201, [success |-> TRUE,
                                                    event   |-> transformedEvent(row)])]
              /\ inserted' = inserted + 1
           \/ /\ \E after \in {respond(rq, 500, [error |-> "Failed to create event"]),
                               errorHandler(rq, FetchError)} :
                    req' = [req EXCEPT ![r] = after]
              /\ UNCHANGED <<store, inserted>>
        /\ UNCHANGED <<session, env, accepted, viEvents, viOut, viPc>>

\* (the error branch without its return: the 404 branch answers as well)
updateEventAfter_respondsTwice(rq, error, data) ==
    IF error THEN respond(respond(rq, 500, [error |-> "Failed to update event"]),
                          404, [error |-> "Event not found"])
    ELSE IF data = <<>> THEN respond(rq, 404, [error |-> "Event not found"])
    ELSE respond(rq, 200, [success |-> TRUE, event |-> transformedEvent(data[1])])

\* updateEvent after .update(dbUpdates).eq('id', id).eq('user_id', userId)
\* .select().single(): error is set when the call failed or when not
\* exactly one row matched; data is the updated row, or null.
updateEventAfter(rq, error, data) ==
    IF error THEN respond(rq, 500, [error |-> "Failed to update event"])
    ELSE IF data = <<>> THEN respond(rq, 404, [error |-> "Event not found"])
    ELSE respond(rq, 200, [success |-> TRUE, event |-> transformedEvent(data[1])])

UpdateEventReturns(r) ==
    LET rq == req[r]
        id == rq.path[2]
    IN  /\ rq.pc = "updateEvent:update"
        /\ \/ \E row \in rowsOfId(rq.user, id) :
                 LET after == applyUpdates(row, eventSchemaData(rq.body))
                 IN  /\ store' = (store \ {row}) \cup {after}
                     /\ req' = [req EXCEPT ![r] = updateEventAfter(rq, FALSE, <<after>>)]
           \/ /\ \E after \in {updateEventAfter(rq, TRUE, <<>>),
                               errorHandler(rq, FetchError)} :
                    req' = [req EXCEPT ![r] = after]
              /\ UNCHANGED store
        /\ UNCHANGED <<inserted, session, env, accepted, viEvents, viOut, viPc>>

\* deleteEvent and deleteAllEvents after their delete
DeleteReturns(r) ==
    LET rq      == req[r]
        one     == rq.pc = "deleteEvent:delete"
        targets == IF one THEN rowsOfId(rq.user, rq.path[2]) ELSE rowsOfUser(rq.user)
    IN  /\ rq.pc \in {"deleteEvent:delete", "deleteAllEvents:delete"}
        /\ \/ /\ store' = store \ targets
              /\ req' = [req EXCEPT ![r] =
                           respond(rq, 200,
                                   [success |-> TRUE,
                                    message |-> IF one THEN "Event deleted successfully"
                                                ELSE "All events deleted successfully"])]
           \/ /\ \E after \in {respond(rq, 500, [error |-> IF one THEN "Failed to delete event"
                                                           ELSE "Failed to delete events"]),
                               errorHandler(rq, FetchError)} :
                    req' = [req EXCEPT ![r] = after]
              /\ UNCHANGED store
        /\ UNCHANGED <<inserted, session, env, accepted, viEvents, viOut, viPc>>

\* batchSyncEvents after clearing the caller's rows
BatchDeleteReturns(r) ==
    LET rq == req[r]
    IN  /\ rq.pc = "batchSyncEvents:delete"
        /\ \/ /\ store' = store \ rowsOfUser(rq.user)
              /\ req' = [req EXCEPT ![r] = await(rq, "batchSyncEvents:insert", "store.insert")]
           \/ /\ \E after \in {respond(rq, 500, [error |-> "Failed to clear existing events"]),
                               errorHandler(rq, FetchError)} :
                    req' = [req EXCEPT ![r] = after]
              /\ UNCHANGED store
        /\ UNCHANGED <<inserted, session, env, accepted, viEvents, viOut, viPc>>

\* batchSyncEvents after the batch insert
BatchInsertReturns(r) ==
    LET rq     == req[r]
        events == rq.body.events.v
        rows   == [i \in 1..Len(events) |->
                      dbEvent(rowId(inserted + i), rq.user, eventSchemaData(events[i].v))]
    IN  /\ rq.pc = "batchSyncEvents:insert"
        /\ \/ /\ inserted + Len(events) <= MaxIds
              /\ store' = store \cup {rows[i] : i \in 1..Len(rows)}
              /\ inserted' = inserted + Len(events)
              /\ req' = [req EXCEPT ![r] =
                           respond(rq, 200,
                                   [success |-> TRUE,
                                    events  |-> transformedEvents(rows),
                                    count   |-> Len(rows),
                                    message |-> IF truthy(Get(rq.body, "clearExisting"))
                                                THEN "Events replaced successfully"
                                                ELSE "Events synced successfully"])]
           \/ /\ \E after \in {respond(rq, 500, [error |-> "Failed to sync events"]),
                               errorHandler(rq, FetchError)} :
                    req' = [req EXCEPT ![r] = after]
              /\ UNCHANGED <<store, inserted>>
        /\ UNCHANGED <<session, env, accepted, viEvents, viOut, viPc>>

\* The auth provider stops accepting a token (expiry, sign-out) ...
TokenExpires(token) ==
    /\ token \in session
    /\ session' = session \ {token}
    /\ UNCHANGED <<store, inserted, env, req, accepted, viEvents, viOut, viPc>>

\* ... or accepts it (again): the user signed in.
TokenIssued(token) ==
    /\ token \notin session
    /\ session' = session \cup {token}
    /\ UNCHANGED <<store, inserted, env, req, accepted, viEvents, viOut, viPc>>

\* GEMINI_API_KEY: unset, the placeholder of the sample configuration, or a key.
\* The deployment of Spec has a key; SpecAi runs the /ai routes under each.
GeminiKeys == {"", "your_gemini_api_key_here", "AIza-key"}

Slots == {1}

Connections == {1, 2}

Init ==
    /\ store = {}
    /\ inserted = 0
    /\ session = Tokens
    /\ env = [GEMINI_API_KEY |-> "AIza-key"]
    /\ req = [r \in Slots |-> IdleReq]
    /\ accepted = {}
    /\ viEvents = <<>>
    /\ viOut = NoResult
    /\ viPc = "idle"

Next ==
    \/ \E r \in DOMAIN req : Receive(r)
    \/ \E r \in DOMAIN req : Finish(r)
    \/ \E r \in DOMAIN req : GetUserReturns(r)
    \/ \E r \in DOMAIN req : InsightsSelectReturns(r)
    \/ \E r \in DOMAIN req : InsightsGroqReturns(r)
    \/ \E r \in DOMAIN req : ParseGroqReturns(r)
    \/ \E r \in DOMAIN req : GeminiReturns(r)
    \/ \E r \in DOMAIN req : AnalyticsSelectReturns(r)
    \/ \E r \in DOMAIN req : TaskInsightGroqReturns(r)
    \/ \E r \in DOMAIN req : GetEventsReturns(r)
    \/ \E r \in DOMAIN req : CreateEventReturns(r)
    \/ \E r \in DOMAIN req : UpdateEventReturns(r)
    \/ \E r \in DOMAIN req : DeleteReturns(r)
    \/ \E r \in DOMAIN req : BatchDeleteReturns(r)
    \/ \E r \in DOMAIN req : BatchInsertReturns(r)
    \/ \E token \in ExpiringTokens : TokenExpires(token)
    \/ \E token \in ExpiringTokens : TokenIssued(token)

Spec == Init /\ [][Next]_allVars

-----------------------------------------------------------------------------
(* The /ai routes under every configuration of GEMINI_API_KEY; the events  *)
(* table stays empty.                                                      *)

ReceiveAi(r) == ReceiveFrom(r, AiRequests)

InitAi ==
    /\ store = {}
    /\ inserted = 0
    /\ session = Tokens
    /\ env \in {[GEMINI_API_KEY |-> key] : key \in GeminiKeys}
    /\ req = [r \in Slots |-> IdleReq]
    /\ accepted = {}
    /\ viEvents = <<>>
    /\ viOut = NoResult
    /\ viPc = "idle"

NextAi ==
    \/ \E r \in DOMAIN req : ReceiveAi(r)
    \/ \E r \in DOMAIN req : Finish(r)
    \/ \E r \in DOMAIN req : GetUserReturns(r)
    \/ \E r \in DOMAIN req : InsightsSelectReturns(r)
    \/ \E r \in DOMAIN req : ParseGroqReturns(r)
    \/ \E r \in DOMAIN req : GeminiReturns(r)
    \/ \E r \in DOMAIN req : AnalyticsSelectReturns(r)
    \/ \E r \in DOMAIN req : TaskInsightGroqReturns(r)
    \/ \E token \in ExpiringTokens : TokenExpires(token)
    \/ \E token \in ExpiringTokens : TokenIssued(token)

SpecAi == InitAi /\ [][NextAi]_allVars

-----------------------------------------------------------------------------
(* Every route under every configuration of GEMINI_API_KEY, with the auth  *)
(* provider accepting the same tokens throughout.                          *)

InitConfig ==
    /\ store = {}
    /\ inserted = 0
    /\ session = Tokens
    /\ env \in {[GEMINI_API_KEY |-> key] : key \in GeminiKeys}
    /\ req = [r \in Slots |-> IdleReq]
    /\ accepted = {}
    /\ viEvents = <<>>
    /\ viOut = NoResult
    /\ viPc = "idle"

NextConfig ==
    \/ \E r \in DOMAIN req : Receive(r)
    \/ \E r \in DOMAIN req : Finish(r)
    \/ \E r \in DOMAIN req : GetUserReturns(r)
    \/ \E r \in DOMAIN req : InsightsSelectReturns(r)
    \/ \E r \in DOMAIN req : InsightsGroqReturns(r)
    \/ \E r \in DOMAIN req : ParseGroqReturns(r)
    \/ \E r \in DOMAIN req : GeminiReturns(r)
    \/ \E r \in DOMAIN req : AnalyticsSelectReturns(r)
    \/ \E r \in DOMAIN req : TaskInsightGroqReturns(r)
    \/ \E r \in DOMAIN req : GetEventsReturns(r)
    \/ \E r \in DOMAIN req : CreateEventReturns(r)
    \/ \E r \in DOMAIN req : UpdateEventReturns(r)
    \/ \E r \in DOMAIN req : DeleteReturns(r)
    \/ \E r \in DOMAIN req : BatchDeleteReturns(r)
    \/ \E r \in DOMAIN req : BatchInsertReturns(r)

SpecConfig == InitConfig /\ [][NextConfig]_allVars

-----------------------------------------------------------------------------
(* The central error handler: the store call an events handler waits for   *)
(* throws, the handler passes the exception to next(error), and            *)
(* errorHandler answers.  Two connections; the events table stays empty.   *)

\* The kinds of Error that errorHandler tells apart, and three it does not.
Exceptions ==
    {[name |-> "ZodError", code |-> ""],
     [name |-> "PrismaClientKnownRequestError", code |-> "P2002"],
     [name |-> "PrismaClientKnownRequestError", code |-> "P2025"],
     [name |-> "JsonWebTokenError", code |-> ""],
     [name |-> "TokenExpiredError", code |-> ""],
     [name |-> "Error", code |-> "ECONNRESET"],
     FetchError, TypeError}

ReceiveEvents(r) == ReceiveFrom(r, EventsRequests)

\* catch (error) { return next(error); } of the events handlers
Throws(r) ==
    LET rq == req[r]
    IN  /\ rq.pc \in {"getEvents:select", "createEvent:insert", "updateEvent:update",
                      "deleteEvent:delete", "batchSyncEvents:delete",
                      "batchSyncEvents:insert"}
        /\ \E error \in Exceptions : req' = [req EXCEPT ![r] = errorHandler(rq, error)]
        /\ UNCHANGED others

InitErrors ==
    /\ store = {}
    /\ inserted = 0
    /\ session = Tokens
    /\ env = [GEMINI_API_KEY |-> "AIza-key"]
    /\ req = [r \in Connections |-> IdleReq]
    /\ accepted = {}
    /\ viEvents = <<>>
    /\ viOut = NoResult
    /\ viPc = "idle"

NextErrors ==
    \/ \E r \in DOMAIN req : ReceiveEvents(r)
    \/ \E r \in DOMAIN req : Finish(r)
    \/ \E r \in DOMAIN req : GetUserReturns(r)
    \/ \E r \in DOMAIN req : Throws(r)
    \/ \E r \in DOMAIN req : DeleteReturns(r)

SpecErrors == InitErrors /\ [][NextErrors]_allVars

-----------------------------------------------------------------------------
(* Batch-sync with clearExisting on two connections: the requests of one   *)
(* caller, or of two, run at the same time.                                *)

BatchRequests ==
    {Request("POST", <<"events", "batch">>, <<>>, body) :
        body \in {[events |-> JArr(<<JObj(event)>>), clearExisting |-> JBool(TRUE)] :
                    event \in {standup, gym}}}

ReceiveBatch(r) == ReceiveFrom(r, BatchRequests)

InitBatch ==
    /\ store = {}
    /\ inserted = 0
    /\ session = Tokens
    /\ env = [GEMINI_API_KEY |-> "AIza-key"]
    /\ req = [r \in Connections |-> IdleReq]
    /\ accepted = {}
    /\ viEvents = <<>>
    /\ viOut = NoResult
    /\ viPc = "idle"

NextBatch ==
    \/ \E r \in DOMAIN req : ReceiveBatch(r)
    \/ \E r \in DOMAIN req : Finish(r)
    \/ \E r \in DOMAIN req : GetUserReturns(r)
    \/ \E r \in DOMAIN req : BatchDeleteReturns(r)
    \/ \E r \in DOMAIN req : BatchInsertReturns(r)

SpecBatch == InitBatch /\ [][NextBatch]_allVars

-----------------------------------------------------------------------------
(* Every route, with each outbound call of a request eventually returning  *)
(* or throwing (weak fairness of the steps in which a call returns); the   *)
(* auth provider accepts the same tokens throughout.                       *)

\* The outbound call request r waits for returns or throws.
CallReturns(r) ==
    \/ GetUserReturns(r)
    \/ InsightsSelectReturns(r)
    \/ InsightsGroqReturns(r)
    \/ ParseGroqReturns(r)
    \/ GeminiReturns(r)
    \/ AnalyticsSelectReturns(r)
    \/ TaskInsightGroqReturns(r)
    \/ GetEventsReturns(r)
    \/ CreateEventReturns(r)
    \/ UpdateEventReturns(r)
    \/ DeleteReturns(r)
    \/ BatchDeleteReturns(r)
    \/ BatchInsertReturns(r)

NextLive ==
    \/ \E r \in DOMAIN req : Receive(r)
    \/ \E r \in DOMAIN req : Finish(r)
    \/ \E r \in DOMAIN req : CallReturns(r)

SpecLive ==
    Init /\ [][NextLive]_allVars /\ \A r \in Slots : WF_allVars(CallReturns(r))

-----------------------------------------------------------------------------
(* Creating and listing events on two connections: a finished create stays *)
(* on its connection while the other connection lists.  The bodies cover   *)
(* every field of the schema, present, empty and missing.                  *)

fullEvent ==
    [title |-> JStr("Lunch"), startTime |-> JNum(Hours(12, 0)),
     endTime |-> JNum(Hours(13, 0)), date |-> JStr(Day1),
     description |-> JStr("With Sam"), emoji |-> JStr(":)"),
     colorHex |-> JStr("#FF6B35"), category |-> JStr("Personal"),
     participants |-> JArr(<<JStr("sam")>>), isCompleted |-> JBool(TRUE),
     notificationSettings |->
        JObj([enabled |-> JBool(TRUE), minutesBefore |-> JArr(<<JNum(15)>>),
              notificationIds |-> JArr(<<JStr("n1")>>)])]

blankEvent ==
    [title |-> JStr("Nap"), startTime |-> JNum(Hours(14, 0)),
     endTime |-> JNum(Hours(14, 2)), date |-> JStr(Day1),
     description |-> JStr(""), emoji |-> JStr(""), colorHex |-> JStr(""),
     category |-> JStr(""), participants |-> JArr(<<>>), isCompleted |-> JBool(FALSE),
     notificationSettings |->
        JObj([enabled |-> JBool(FALSE), minutesBefore |-> JArr(<<>>),
              notificationIds |-> JArr(<<>>)])]

RoundTripRequests ==
    {Request("POST", <<"events">>, <<>>, body) : body \in {standup, fullEvent, blankEvent}}
    \cup {Request("GET", <<"events">>, <<>>, <<>>)}

ReceiveRoundTrip(r) == ReceiveFrom(r, RoundTripRequests)

InitRoundTrip ==
    /\ store = {}
    /\ inserted = 0
    /\ session = Tokens
    /\ env = [GEMINI_API_KEY |-> "AIza-key"]
    /\ req = [r \in Connections |-> IdleReq]
    /\ accepted = {}
    /\ viEvents = <<>>
    /\ viOut = NoResult
    /\ viPc = "idle"

NextRoundTrip ==
    \/ \E r \in DOMAIN req : ReceiveRoundTrip(r)
    \/ \E r \in DOMAIN req : Finish(r)
    \/ \E r \in DOMAIN req : GetUserReturns(r)
    \/ \E r \in DOMAIN req : CreateEventReturns(r)
    \/ \E r \in DOMAIN req : GetEventsReturns(r)

SpecRoundTrip == InitRoundTrip /\ [][NextRoundTrip]_allVars

-----------------------------------------------------------------------------
(* Properties of the served requests                                       *)

Range(list) == {list[i] : i \in DOMAIN list}

isInsightsRequest(rq) == rq.method = "POST" /\ rq.path = <<"ai", "insights">>

isSuccess(rq) ==
    rq.pc = "done" /\ "success" \in DOMAIN rq.json /\ rq.json.success = TRUE

\* The store returned no events to generateDayInsights: an empty list or null.
gotNoEvents(rq) ==
    isInsightsRequest(rq)
    /\ (rq.events.t = "null" \/ (rq.events.t = "array" /\ rq.events.v = <<>>))

\* C1: on POST /ai/insights, once the store has returned no events for the
\* caller and date (an empty list or null), the request is answered 200
\* success with the five canned insights, empty energyHeatmap and
\* focusBlocks and a workLifeBalance of four zeros, and the request has
\* issued no inference call.
C1_EmptyDayShortCircuit ==
    \A r \in DOMAIN req :
        gotNoEvents(req[r]) =>
            /\ req[r].pc = "done"
            /\ req[r].sent = 1
            /\ req[r].status = 200
            /\ req[r].json =
                 [success |-> TRUE,
                  data |->
                    [insights |-> emptyDayInsights,
                     visualInsights |->
                       [energyHeatmap |-> <<>>,
                        focusBlocks |-> <<>>,
                        workLifeBalance |->
                          [work |-> 0, personal |-> 0, health |-> 0, other |-> 0]]]]
            /\ "groq" \notin Range(req[r].calls)

\* The store held a row of the day for another user and returned the empty
\* list for the caller; the request was answered from the canned content.
C1_Witness ==
    \E r \in DOMAIN req :
        /\ gotNoEvents(req[r])
        /\ req[r].events.t = "array"
        /\ req[r].pc = "done"
        /\ req[r].json.data.insights = emptyDayInsights
        /\ \E row \in store : row.date = req[r].body.date.v /\ row.user_id # req[r].user

\* The routes that are served without a token.
isOpenRoute(rq) ==
    \/ rq.method = "GET" /\ rq.path = <<"health">>
    \/ rq.method = "POST" /\ rq.path = <<"ai", "test-parse">>

isBearer(header) == header.t = "string" /\ startsWith(header.v, "Bearer ")

bearerToken(rq) == substring(rq.authorization.v, 7)

\* A handler other than the auth middleware has started, or a call other
\* than the provider's getUser has been issued.
handlerRan(rq) ==
    \/ Range(rq.ran) \ {"verifySupabaseToken"} # {}
    \/ Range(rq.calls) \ {"auth.getUser"} # {}

\* The handler of a closed route runs only in a request that carried a
\* bearer header and in which the provider returned the token's user.
C2_HandlerOnlyAfterAuth ==
    \A r \in DOMAIN req :
        LET rq == req[r]
        IN  (rq.pc # "idle" /\ ~isOpenRoute(rq)) =>
               /\ handlerRan(rq) =>
                     /\ isBearer(rq.authorization)
                     /\ Head(rq.ran) = "verifySupabaseToken"
                     /\ Head(rq.calls) = "auth.getUser"
                     /\ rq.user = tokenUser(bearerToken(rq))
               /\ (rq.pc = "done" /\ ~handlerRan(rq)) => rq.status = 401

\* The provider's answer decides each time: a request whose token the
\* provider does not accept when asked is answered 401 in that step, and
\* no handler runs, whatever was accepted before.
C2_RejectedNow ==
    \A r \in DOMAIN req :
        (/\ req[r].pc = "verifySupabaseToken:getUser"
         /\ req'[r] # req[r]
         /\ bearerToken(req[r]) \notin session) =>
            /\ req'[r].pc = "done"
            /\ req'[r].status = 401
            /\ req'[r].user = ""
            /\ ~handlerRan(req'[r])

\* C2: for every route other than GET /health and POST /ai/test-parse the
\* handler runs, and a store query or inference call is issued, only after
\* the request carried an "Authorization: Bearer <token>" header and the
\* auth provider returned a user for that token during this same request;
\* otherwise the response is 401 and the handler never runs.  Validity is
\* not remembered: a token that was accepted earlier and is rejected by the
\* provider now is answered 401.
C2_AuthGate == [](C2_HandlerOnlyAfterAuth) /\ [][C2_RejectedNow]_allVars

\* A token the provider accepted on an earlier request is answered 401
\* "Invalid or expired token" on a later one.
C2_Witness ==
    \E r \in DOMAIN req :
        /\ req[r].pc = "done"
        /\ ~isOpenRoute(req[r])
        /\ isBearer(req[r].authorization)
        /\ bearerToken(req[r]) \in accepted
        /\ req[r].status = 401
        /\ req[r].json = [success |-> FALSE, error |-> "Invalid or expired token"]
        /\ req[r].calls = <<"auth.getUser">>

isEventsRequest(rq) == rq.path # <<>> /\ Head(rq.path) = "events"

\* The events a response carries.
returnedEvents(rq) ==
    (IF "events" \in DOMAIN rq.json THEN Range(rq.json.events) ELSE {})
    \cup (IF "event" \in DOMAIN rq.json THEN {rq.json.event} ELSE {})

\* A response to caller A carries only events whose userId is A.
C3_ReturnsOwnRows ==
    \A r \in DOMAIN req :
        (req[r].pc = "done" /\ isEventsRequest(req[r])) =>
            \A event \in returnedEvents(req[r]) : event.userId = req[r].user

\* A step of a request by caller A leaves every row of another user in
\* the table as it was, and every row it adds or rewrites belongs to A and,
\* when rewritten, to the same user as before.
C3_TouchesOwnRows ==
    \A r \in DOMAIN req :
        req'[r] # req[r] =>
            /\ \A row \in store : row.user_id # req[r].user => row \in store'
            /\ \A row \in store' \ store : row.user_id = req[r].user

\* C3: whatever /events requests the authenticated users have issued, a
\* request by caller A never returns, updates or deletes a stored row
\* whose user_id differs from A, and every row it inserts has user_id A;
\* an update or delete by id naming another user's event leaves it unchanged.
C3_UserScoping == [](C3_ReturnsOwnRows) /\ [][C3_TouchesOwnRows]_allVars

\* A delete by id of another user's event was answered, and the event is
\* still stored.
C3_Witness ==
    \E r \in DOMAIN req : \E row \in store :
        /\ req[r].pc = "done"
        /\ req[r].method = "DELETE"
        /\ req[r].path = <<"events", row.id>>
        /\ req[r].user # ""
        /\ row.user_id # req[r].user
        /\ req[r].status = 200

\* The model's reply is a JSON array of strings.
isJsonArrayOfStrings(reply) ==
    /\ reply.t = "string"
    /\ JSONparse(reply.v).ok
    /\ isStringArray(JSONparse(reply.v).value)

\* The model has replied to generateDayInsights.
gotReply(rq) == isInsightsRequest(rq) /\ rq.reply.t # "undefined"

\* C4: on POST /ai/insights for a day with events, whenever the model's
\* reply is not a JSON array of strings (text that does not parse, or JSON
\* of another shape), the response is 200 success with the five fallback
\* insights.
C4_FallbackUnlessStringArray ==
    \A r \in DOMAIN req :
        (gotReply(req[r]) /\ ~isJsonArrayOfStrings(req[r].reply)) =>
            /\ req[r].status = 200
            /\ isSuccess(req[r])
            /\ req[r].json.data.insights = fallbackInsights

\* C5: every success response of POST /ai/insights carries insights that
\* are a list of exactly five strings.
C5_FiveInsights ==
    \A r \in DOMAIN req :
        (isInsightsRequest(req[r]) /\ isSuccess(req[r])) =>
            /\ isStringArray(req[r].json.data.insights)
            /\ Len(req[r].json.data.insights.v) = 5

isCreated(rq) ==
    rq.pc = "done" /\ rq.method = "POST" /\ rq.path = <<"events">> /\ rq.status = 201

isListed(rq) ==
    rq.pc = "done" /\ rq.method = "GET" /\ rq.path = <<"events">> /\ rq.status = 200

\* The fields of the event schema a client sent in a body.
suppliedFields(body) == DOMAIN body \cap EventKeys

\* C15: an event created from an accepted body and then listed by the
\* caller carries every client-supplied field with the value sent, empty
\* strings included.
C15_RoundTrip ==
    \A c, l \in DOMAIN req :
        (isCreated(req[c]) /\ isListed(req[l]) /\ req[c].user = req[l].user) =>
            \A event \in Range(req[l].json.events) :
                event.id = req[c].json.event.id =>
                    \A key \in suppliedFields(req[c].body) :
                        event[key] = plain(req[c].body[key])

isDeleteAll(rq) == rq.method = "DELETE" /\ rq.path = <<"events", "all">>

isTaskInsight(rq) ==
    /\ rq.pc = "done"
    /\ rq.path = <<"ai", "task-insight">>
    /\ "groq" \in Range(rq.calls)

\* The call threw (no reply was kept) or its content was null or "".
noContent(rq) == rq.reply.t \in {"undefined", "null"} \/ rq.reply = JStr("")

\* The first line of the fallback for a start time (in quarter hours).
FallbackHeadline(startTime) ==
    IF startTime < Hours(10, 0) THEN "* Morning energy peak"
    ELSE IF startTime < Hours(14, 0) THEN "* Mid-day slot"
    ELSE IF startTime < Hours(18, 0) THEN "* Afternoon energy dip"
    ELSE "* Evening hours"

lineBreaks(str) == {i \in 1..Len(str) : SubSeq(str, i, i) = "\n"}

\* C18: a task-insight request with title, startTime and endTime whose
\* inference call throws or returns empty content is answered 200 success
\* with the fallback of its time of day (before 10, before 14, before 18,
\* later), two lines that each begin with a bullet; such a request never
\* ends in a 500.
C18_TaskInsightFallback ==
    \A r \in DOMAIN req :
        isTaskInsight(req[r]) =>
            /\ req[r].status = 200
            /\ req[r].json.success
            /\ noContent(req[r]) =>
                  LET insight == req[r].json.data.insight
                  IN  /\ startsWith(insight, FallbackHeadline(req[r].body.startTime.v))
                      /\ Cardinality(lineBreaks(insight)) = 1
                      /\ \A i \in lineBreaks(insight) :
                            SubSeq(insight, i + 1, i + 2) = "* "

\* C18 witness: the call for a task at 18:00 threw and the answer is the
\* evening fallback.
C18_Witness ==
    \E r \in DOMAIN req :
        /\ isTaskInsight(req[r])
        /\ req[r].reply.t = "undefined"
        /\ req[r].body.startTime.v = Hours(18, 0)
        /\ req[r].status = 200
        /\ startsWith(req[r].json.data.insight, "* Evening hours")

GeminiRoutes == {"parse-schedule-pro", "parse-schedule-image", "parse-schedule-images"}

GeminiHandlers ==
    {"parseNaturalLanguageGemini", "parseScheduleFromImage", "parseScheduleFromImages"}

\* A finished request to one of the three Gemini routes whose handler ran.
isGeminiRequest(rq) ==
    /\ rq.pc = "done"
    /\ rq.method = "POST"
    /\ \E route \in GeminiRoutes : rq.path = <<"ai", route>>
    /\ Range(rq.ran) \cap GeminiHandlers # {}

\* C19: without GEMINI_API_KEY the handlers of parse-schedule-pro,
\* parse-schedule-image and parse-schedule-images answer 503 whatever the
\* body (valid, invalid or missing), and no call goes to Gemini.
C19_NoKeyNoCall ==
    \A r \in DOMAIN req :
        (isGeminiRequest(req[r]) /\ env.GEMINI_API_KEY = "") =>
            /\ req[r].status = 503
            /\ "gemini" \notin Range(req[r].calls)

\* C19 witness: without the key, parse-schedule-pro with a body that has no
\* prompt is answered 503.
C19_Witness ==
    \E r \in DOMAIN req :
        /\ isGeminiRequest(req[r])
        /\ env.GEMINI_API_KEY = ""
        /\ req[r].path = <<"ai", "parse-schedule-pro">>
        /\ req[r].body = <<>>
        /\ req[r].status = 503

\* No user was established for the request: it carried no bearer header, or
\* the provider did not return a user for its token.
withoutValidToken(rq) == rq.user = ""

\* C20: every finished request for which no user was established, on any
\* route of the service, was answered 401 and issued no call to the store
\* or to an inference provider.
C20_AllEndpointsGated ==
    \A r \in DOMAIN req :
        (req[r].pc = "done" /\ withoutValidToken(req[r])) =>
            /\ req[r].status = 401
            /\ Range(req[r].calls) \subseteq {"auth.getUser"}

\* The update or delete of request r returns in this step and its id
\* matched no row of the caller (no such event, or another user's).
targetAbsent(r, pc) ==
    /\ req[r].pc = pc
    /\ req'[r].pc = "done"
    /\ rowsOfId(req[r].user, req[r].path[2]) = {}

\* C21: when the id of an update or delete matches no row of the caller, no
\* stored row changes, the update is answered 404 'Event not found' and the
\* delete is answered 200.
C21_AbsentTarget ==
    [][\A r \in DOMAIN req :
          /\ targetAbsent(r, "updateEvent:update") =>
                /\ store' = store
                /\ req'[r].status = 404
                /\ req'[r].json = [error |-> "Event not found"]
          /\ (targetAbsent(r, "deleteEvent:delete") /\ req'[r].status # 500) =>
                /\ store' = store
                /\ req'[r].status = 200]_allVars

\* The body of the request fails the validation of its route.
failsValidation(rq) ==
    LET body == rq.body
        at(route) == rq.method = "POST" /\ rq.path = <<"ai", route>>
        images == Get(body, "images")
    IN  \/ at("insights") /\ ~truthy(Get(body, "date"))
        \/ at("analytics") /\ (~truthy(Get(body, "startDate")) \/ ~truthy(Get(body, "endDate")))
        \/ at("parse-schedule")
              /\ (Get(body, "prompt").t # "string" \/ Get(body, "prompt").v = "")
        \/ at("task-insight")
              /\ \/ ~truthy(Get(body, "title"))
                 \/ "startTime" \notin DOMAIN body
                 \/ "endTime" \notin DOMAIN body
        \/ at("parse-schedule-images")
              /\ (images.t # "array" \/ Len(images.v) = 0 \/ Len(images.v) > 3)
        \/ rq.method = "POST" /\ rq.path = <<"events">> /\ ~eventSchemaAccepts(body, FALSE)
        \/ rq.method = "PUT" /\ Len(rq.path) = 2 /\ rq.path[1] = "events"
              /\ ~eventSchemaAccepts(body, TRUE)
        \/ rq.method = "POST" /\ rq.path = <<"events", "batch">> /\ ~batchSchemaAccepts(body)

\* Request r is answered in this step by the handler of its route (the
\* token check has passed) and its body fails validation.
rejectsBody(r) ==
    /\ req[r].pc # "done"
    /\ req'[r].pc = "done"
    /\ Range(req'[r].ran) \ {"verifySupabaseToken"} # {}
    /\ failsValidation(req'[r])

answered400(r) ==
    /\ req'[r].status = 400
    /\ Range(req'[r].calls) \subseteq {"auth.getUser"}
    /\ store' = store

\* C22 as stated: a request whose body fails validation is answered 400
\* with no store query and no inference call, and the store is unchanged.
C22_Original ==
    [][\A r \in DOMAIN req : rejectsBody(r) => answered400(r)]_allVars

\* C22 as amended: the same, except that parse-schedule-images is answered
\* 400 only when the Gemini key is usable (without one its answer is 503,
\* still with no call and no change of the store).
C22_InvalidBody ==
    [][\A r \in DOMAIN req :
          rejectsBody(r) =>
              IF req[r].path = <<"ai", "parse-schedule-images">>
                    /\ env.GEMINI_API_KEY \in {"", "your_gemini_api_key_here"}
              THEN /\ req'[r].status = 503
                   /\ Range(req'[r].calls) \subseteq {"auth.getUser"}
                   /\ store' = store
              ELSE answered400(r)]_allVars

\* C22 witness: a batch-sync with clearExisting and no events list is
\* answered 400 while the caller has a stored event, and no delete was
\* issued.
C22_Witness ==
    \E r \in DOMAIN req :
        /\ req[r].pc = "done"
        /\ req[r].path = <<"events", "batch">>
        /\ req[r].body = [clearExisting |-> JBool(TRUE)]
        /\ req[r].status = 400
        /\ req[r].calls = <<"auth.getUser">>
        /\ \E row \in store : row.user_id = req[r].user

\* No outbound call appears twice in the call log of a request, and at
\* most one response was sent.
eachCallOnce(rq) ==
    /\ \A i, j \in DOMAIN rq.calls : rq.calls[i] = rq.calls[j] => i = j
    /\ rq.sent <= 1
    /\ rq.pc = "done" => rq.sent = 1

\* The calls of an insights request come in the order token check, store
\* query, inference call.
insightsCallOrder(rq) ==
    (rq.method = "POST" /\ rq.path = <<"ai", "insights">>) =>
        \E n \in 0..3 : rq.calls = SubSeq(<<"auth.getUser", "store.select", "groq">>, 1, n)

\* Request r issues a further outbound call in this step, when a call it
\* was waiting for returns.
callsOn(r) ==
    /\ req[r].calls # <<>>
    /\ Len(req'[r].calls) > Len(req[r].calls)

\* The call request r was waiting for did what was asked: the provider
\* returned the token's user, the day's rows were returned, the caller's
\* rows were cleared.
callSucceeded(r) ==
    CASE req[r].pc = "verifySupabaseToken:getUser" ->
            /\ bearerToken(req[r]) \in session
            /\ req'[r].user = tokenUser(bearerToken(req[r]))
      [] req[r].pc = "generateDayInsights:select" ->
            /\ req'[r].events.t = "array"
            /\ Len(req'[r].events.v) > 0
      [] req[r].pc = "batchSyncEvents:delete" ->
            {row \in store' : row.user_id = req[r].user} = {}
      [] OTHER -> FALSE

\* C23: within one request no outbound call is issued twice and one
\* response is sent; a request goes on to a further call only after the
\* call before it succeeded, and each step issues at most one call; the
\* calls of an insights request are token check, store query, inference
\* call in this order.
C23_NoRetry ==
    /\ [](\A r \in DOMAIN req : eachCallOnce(req[r]) /\ insightsCallOrder(req[r]))
    /\ [][\A r \in DOMAIN req :
             callsOn(r) =>
                 /\ callSucceeded(r)
                 /\ Len(req'[r].calls) = Len(req[r].calls) + 1
                 /\ req'[r].sent = 0]_allVars

\* C23 witness: an insights request on a day with an event is answered
\* after the three calls.
C23_Witness ==
    \E r \in DOMAIN req :
        /\ req[r].pc = "done"
        /\ req[r].path = <<"ai", "insights">>
        /\ req[r].calls = <<"auth.getUser", "store.select", "groq">>
        /\ req[r].sent = 1

\* An exception of the request reached errorHandler.
escaped(rq) == rq.pc = "done" /\ rq.thrown # NoError

internalError(rq) ==
    rq.status = 500 /\ rq.json = [error |-> "Internal server error"] /\ rq.sent = 1

StatusOfKind(error) ==
    CASE error.name = "ZodError"          -> 400
      [] error.code = "P2002"             -> 409
      [] error.code = "P2025"             -> 404
      [] error.name = "JsonWebTokenError" -> 401
      [] error.name = "TokenExpiredError" -> 401
      [] OTHER                            -> 500

isBatchSync(rq) == rq.method = "POST" /\ rq.path = <<"events", "batch">>

\* C26: when a batch-sync request has ended with an error response, the
\* caller's stored events are the ones stored when its handler started.
C26_BatchErrorKeepsEvents ==
    \A r \in DOMAIN req :
        (req[r].pc = "done" /\ isBatchSync(req[r]) /\ req[r].status >= 400) =>
            {row \in store : row.user_id = req[r].user} = req[r].before

\* A batch-sync with clearExisting that was answered 200.
replaced(rq) ==
    /\ rq.pc = "done"
    /\ isBatchSync(rq)
    /\ rq.status = 200
    /\ truthy(Get(rq.body, "clearExisting"))

\* The caller's stored events are the events of the request's batch.
storesBatchOf(rq) ==
    LET rows   == {row \in store : row.user_id = rq.user}
        events == rq.body.events.v
    IN  /\ Cardinality(rows) = Len(events)
        /\ {row.title : row \in rows} = {events[i].v.title.v : i \in 1..Len(events)}

\* C27: when two batch-syncs with clearExisting of one caller have both
\* succeeded, the caller's stored events are the batch of one of them.
C27_BatchReplaces ==
    \A r, c \in DOMAIN req :
        (r # c /\ replaced(req[r]) /\ replaced(req[c]) /\ req[r].user = req[c].user) =>
            storesBatchOf(req[r]) \/ storesBatchOf(req[c])

\* The answers of verifySupabaseToken.
AuthRejections ==
    {"Missing or invalid authorization header", "Invalid or expired token",
     "Token verification failed"}

rejectedByAuth(rq) ==
    /\ rq.status = 401
    /\ rq.ran # <<>>
    /\ rq.ran[Len(rq.ran)] = "verifySupabaseToken"

\* At most one response, exactly one once the request is over, none while
\* it waits for a call; a request the auth middleware rejected was not
\* passed on.
oneResponse(rq) ==
    /\ rq.sent <= 1
    /\ rq.pc = "done" => rq.sent = 1
    /\ rq.pc \notin {"idle", "done"} => rq.sent = 0
    /\ (rq.pc = "done" /\ rq.status = 401 /\ "error" \in DOMAIN rq.json
            /\ rq.json.error \in AuthRejections) => rejectedByAuth(rq)
    /\ (rq.pc = "done" /\ Range(rq.ran) \ {"verifySupabaseToken"} # {}
            /\ "verifySupabaseToken" \in Range(rq.ran)) => rq.user # ""

\* C28: with every outbound call eventually returning or throwing, a
\* request never has two responses, the auth middleware never both answers
\* 401 and passes the request on, and every request that waits for a call
\* is eventually answered.
C28_ExactlyOneResponse ==
    /\ [](\A r \in DOMAIN req : oneResponse(req[r]))
    /\ \A r \in Slots : (req[r].pc \notin {"idle", "done"}) ~> (req[r].pc = "done")

\* C28 witness: an update whose store call failed was answered once.
C28_Witness ==
    \E r \in DOMAIN req :
        /\ req[r].pc = "done"
        /\ req[r].method = "PUT"
        /\ req[r].calls = <<"auth.getUser", "store.update">>
        /\ req[r].status = 500
        /\ req[r].sent = 1

-----------------------------------------------------------------------------
(* The visual-insights computation on its own: the inputs are event lists  *)
(* as the store returns them (rows that passed the event schema, so both   *)
(* times lie in 0..24 hours), and the one action applies the function.     *)

MaxEvents == 2

\* Start times on both sides of every boundary of the energy rule; the end
\* time and the category vary independently of the start time.
EnergyStarts ==
    {Hours(0, 0), Hours(5, 3), Hours(6, 0), Hours(8, 3), Hours(9, 0), Hours(11, 3),
     Hours(12, 0), Hours(15, 3), Hours(16, 0), Hours(18, 3), Hours(19, 0), Hours(24, 0)}

EnergyPool ==
    {Row("e", "u1", "t", s, Hours(10, 0), "2025-10-25", "coding") : s \in EnergyStarts}
    \cup {Row("e", "u1", "t", s, Hours(24, 0), "2025-10-25", null) : s \in EnergyStarts}

\* Categories for the task-type rules: every keyword, upper/lower-case
\* spellings, categories matching several rules, none, empty and missing.
TaskCategories ==
    {"coding", "CODING", "Coding", "work meeting", "Work Meeting", "meeting", "Call",
     "email", "Admin", "design", "creative admin", "design call", "Deep", "gym", "", null}

\* One start time per energy label (medium, high, low).
TaskStarts == {Hours(7, 0), Hours(9, 0), Hours(13, 0)}

TaskPool ==
    {Row("e", "u1", "t", Hours(9, 0), Hours(10, 0), "2025-10-25", c) : c \in TaskCategories}
    \cup {Row("e", "u1", "t", s, s + Hours(1, 0), "2025-10-25", c) :
            s \in TaskStarts, c \in {"coding", "meeting", "Admin", "design", "gym"}}

\* Categories for the balance buckets: every keyword, a category matching
\* two rules, none and missing.
BalanceCategories ==
    {"work", "Meeting", "coding", "health", "exercise", "Fitness class",
     "personal", "family", "social", "work health", "gym", null}

\* Durations of -1, 0 and 2 hours next to the 1-hour events.
BalancePool ==
    {Row("e", "u1", "t", Hours(10, 0), Hours(11, 0), "2025-10-25", c) : c \in BalanceCategories}
    \cup {Row("e", "u1", "t", Hours(10, 0), e, "2025-10-25", c) :
            e \in {Hours(9, 0), Hours(10, 0), Hours(12, 0)},
            c \in {"work", "health", "personal", "gym"}}
    \cup {Row("e", "u1", "t", Hours(9, 0), Hours(11, 0), "2025-10-25", "coding")}

\* Events for the focus blocks: equal and different start times, gaps of
\* more than, exactly and less than a quarter hour and overlaps, durations
\* on both sides of 0.5 and 1.5 hours, zero and negative.
FocusStarts == {Hours(9, 0), Hours(10, 0), Hours(10, 1), Hours(10, 2)}

FocusDurations == {-Hours(1, 0), 0, Hours(0, 1), Hours(0, 2), Hours(1, 1), Hours(1, 2)}

FocusPool ==
    {Row("e", "u1", "t", s, s + d, "2025-10-25", "coding") :
        s \in FocusStarts, d \in FocusDurations}

InputLists ==
    SeqsUpTo(EnergyPool, MaxEvents) \cup SeqsUpTo(TaskPool, MaxEvents)
        \cup SeqsUpTo(BalancePool, MaxEvents) \cup SeqsUpTo(FocusPool, MaxEvents)

InitVI ==
    /\ viEvents \in InputLists
    /\ viOut = NoResult
    /\ viPc = "call"
    /\ store = {}
    /\ inserted = 0
    /\ session = Tokens
    /\ env = [GEMINI_API_KEY |-> ""]
    /\ req = [r \in Slots |-> IdleReq]
    /\ accepted = {}

Calculate ==
    /\ viPc = "call"
    /\ viOut' = calculateVisualInsights(viEvents)
    /\ viEvents' = eventsAfter(viEvents)
    /\ viPc' = "done"
    /\ UNCHANGED <<store, inserted, session, env, req, accepted>>

NextVI == Calculate

SpecVI == InitVI /\ [][NextVI]_allVars

-----------------------------------------------------------------------------
(* Repeated and interleaved runs of the visual-insights computation: two   *)
(* requests each hold an event list (viEvents.a, viEvents.b) and run the   *)
(* computation on it up to MaxRuns times, in any interleaving; viOut keeps *)
(* the results of each request in order.                                   *)

MaxRuns == 2

RunPool ==
    {Row("e1", "u1", "Write", Hours(14, 0), Hours(15, 0), Day1, "work"),
     Row("e2", "u1", "Gym", Hours(7, 0), Hours(8, 0), Day1, "health"),
     Row("e3", "u1", "Sync", Hours(9, 0), Hours(9, 1), Day1, "meeting")}

RunLists == SeqsUpTo(RunPool, MaxEvents)

InitRuns ==
    /\ viEvents \in [{"a", "b"} -> RunLists]
    /\ viOut = [k \in {"a", "b"} |-> <<>>]
    /\ viPc = "runs"
    /\ store = {}
    /\ inserted = 0
    /\ session = Tokens
    /\ env = [GEMINI_API_KEY |-> ""]
    /\ req = [r \in Slots |-> IdleReq]
    /\ accepted = {}

\* One call of calculateVisualInsights by request k.
Run(k) ==
    /\ Len(viOut[k]) < MaxRuns
    /\ viOut' = [viOut EXCEPT ![k] = Append(@, calculateVisualInsights(viEvents[k]))]
    /\ viEvents' = [viEvents EXCEPT ![k] = eventsAfter(@)]
    /\ UNCHANGED <<viPc, store, inserted, session, env, req, accepted>>

NextRuns == \E k \in {"a", "b"} : Run(k)

SpecRuns == InitRuns /\ [][NextRuns]_allVars

-----------------------------------------------------------------------------
(* generateAnalytics on its own: the input is what the store returned for  *)
(* the range (null, or rows in date order), held in viEvents; the one      *)
(* action runs the handler from there and keeps the answered request in    *)
(* viOut.                                                                  *)

MaxRange == 4

Day3 == "2025-10-27"

RangePool ==
    {Row("e", "u1", "t", Hours(9, 0), Hours(9, 0) + d, date, "work") :
        d \in {Hours(0, 1), Hours(1, 0)}, date \in {Day1, Day2, Day3}}

RangeResults ==
    {JNull} \cup {JArr(rows) : rows \in {list \in SeqsUpTo(RangePool, MaxRange) :
                                            \A i, j \in DOMAIN list : i < j => byDate(list[i], list[j])}}

\* An analytics request of u1 waiting for the store.
analyticsRequest ==
    [IdleReq EXCEPT !.pc = "generateAnalytics:select", !.method = "POST",
                    !.path = <<"ai", "analytics">>,
                    !.authorization = JStr("Bearer t1"),
                    !.body = [startDate |-> JStr(Day1), endDate |-> JStr(Day3)],
                    !.ran = <<"verifySupabaseToken", "generateAnalytics">>,
                    !.user = "u1",
                    !.calls = <<"auth.getUser", "store.select">>]

InitAnalytics ==
    /\ viEvents \in RangeResults
    /\ viOut = NoResult
    /\ viPc = "call"
    /\ store = {}
    /\ inserted = 0
    /\ session = Tokens
    /\ env = [GEMINI_API_KEY |-> ""]
    /\ req = [r \in Slots |-> IdleReq]
    /\ accepted = {}

Analyse ==
    /\ viPc = "call"
    /\ viOut' = analyticsAfterSelect(analyticsRequest, viEvents)
    /\ viPc' = "done"
    /\ UNCHANGED <<viEvents, store, inserted, session, env, req, accepted>>

NextAnalytics == Analyse

SpecAnalytics == InitAnalytics /\ [][NextAnalytics]_allVars

-----------------------------------------------------------------------------
(* Properties of the visual-insights computation (checked under SpecVI)    *)

Heatmap == viOut.energyHeatmap

Balance == viOut.workLifeBalance

Duration(event) == event.end_time - event.start_time

\* p is num/den rounded to the nearest integer (ties upwards), den # 0.
NearestInt(p, num, den) ==
    LET n == IF den < 0 THEN -num ELSE num
        d == Abs(den)
    IN  2 * p * d <= 2 * n + d /\ 2 * n + d < 2 * (p + 1) * d

\* C6: the heatmap has one entry per event, and an entry's optimalEnergy is
\* "high" exactly when 9 <= startTime < 12, "medium" exactly when
\* 6 <= startTime < 9 or 16 <= startTime < 19, and "low" otherwise, whatever
\* the end time, the category and the other events of the list are.
C6_EnergyByStartTime ==
    viPc = "done" =>
        /\ Len(Heatmap) = Len(viEvents)
        /\ \A i \in 1..Len(viEvents) :
             LET st == viEvents[i].start_time
                 e  == Heatmap[i].optimalEnergy
                 hi == Hours(9, 0) <= st /\ st < Hours(12, 0)
                 md == \/ (Hours(6, 0) <= st /\ st < Hours(9, 0))
                       \/ (Hours(16, 0) <= st /\ st < Hours(19, 0))
             IN  /\ e \in {"high", "medium", "low"}
                 /\ (e = "high") <=> hi
                 /\ (e = "medium") <=> md
                 /\ (e = "low") <=> (~hi /\ ~md)

\* C6 witness: a computed list of two events with different end times and
\* categories, one starting at 11:45 (high) and one at 12:00 (low).
C6_Witness ==
    /\ viPc = "done"
    /\ Len(viEvents) = 2
    /\ viEvents[1].start_time = Hours(11, 3) /\ Heatmap[1].optimalEnergy = "high"
    /\ viEvents[2].start_time = Hours(12, 0) /\ Heatmap[2].optimalEnergy = "low"
    /\ viEvents[1].end_time # viEvents[2].end_time
    /\ viEvents[1].category # viEvents[2].category

\* The task type the rules of the claim give to each category of the model.
TaskTypeTable ==
    [c \in TaskCategories \cup BalanceCategories |->
        CASE c \in {"coding", "CODING", "Coding", "Deep", "work", "work health"} -> "deep-work"
          [] c \in {"work meeting", "Work Meeting"} -> "deep-work"
          [] c \in {"meeting", "Meeting", "Call", "design call"} -> "meetings"
          [] c \in {"email", "Admin", "creative admin"} -> "admin"
          [] c \in {"design"} -> "creative"
          [] OTHER -> "other"]

\* C7: an entry's actualTaskType is the type of the first matching rule
\* (work/coding/deep, meeting/call, email/admin, design/creative, else other)
\* on the lower-cased category, a missing or empty category counting as
\* "other"; every spelling of "coding" is deep-work and "work meeting" takes
\* the earlier rule.
C7_TaskTypeByCategory ==
    viPc = "done" =>
        \A i \in 1..Len(viEvents) :
            Heatmap[i].actualTaskType = TaskTypeTable[viEvents[i].category]

\* C7 witness: a computed list holding "work meeting" (two rules match) and
\* an upper-case "CODING".
C7_Witness ==
    /\ viPc = "done"
    /\ Len(viEvents) = 2
    /\ viEvents[1].category = "work meeting" /\ Heatmap[1].actualTaskType = "deep-work"
    /\ viEvents[2].category = "CODING" /\ Heatmap[2].actualTaskType = "deep-work"

\* The alignment table of the claim, on all fifteen pairs.
AlignmentTable ==
    [e \in {"high", "medium", "low"} |->
        [t \in {"deep-work", "meetings", "admin", "creative", "other"} |->
            IF e = "high" /\ t = "deep-work" THEN "optimal"
            ELSE IF <<e, t>> \in {<<"low", "deep-work">>, <<"low", "meetings">>,
                                  <<"high", "admin">>} THEN "poor"
            ELSE "good"]]

\* C8: an entry's alignment is "optimal" for (high, deep-work), "poor" for
\* (low, deep-work), (low, meetings) and (high, admin), and "good" for the
\* other eleven pairs of (optimalEnergy, actualTaskType).
C8_AlignmentTable ==
    viPc = "done" =>
        \A i \in 1..Len(Heatmap) :
            Heatmap[i].alignment
                = AlignmentTable[Heatmap[i].optimalEnergy][Heatmap[i].actualTaskType]

\* C8 witness: a computed list with a (high, admin) entry rated poor and a
\* (medium, admin) entry rated good.
C8_Witness ==
    /\ viPc = "done"
    /\ Len(Heatmap) = 2
    /\ Heatmap[1].optimalEnergy = "high" /\ Heatmap[1].actualTaskType = "admin"
    /\ Heatmap[1].alignment = "poor"
    /\ Heatmap[2].optimalEnergy = "medium" /\ Heatmap[2].actualTaskType = "admin"
    /\ Heatmap[2].alignment = "good"

\* The balance bucket the rules of the claim give to each category of the model.
BucketTable ==
    [c \in TaskCategories \cup BalanceCategories |->
        CASE c \in {"work", "Meeting", "meeting", "coding", "CODING", "Coding"} -> "work"
          [] c \in {"work meeting", "Work Meeting", "work health"} -> "work"
          [] c \in {"health", "exercise", "Fitness class"} -> "health"
          [] c \in {"personal", "family", "social"} -> "personal"
          [] OTHER -> "other"]

BucketHours(b) ==
    SumSeq([i \in 1..Len(viEvents) |->
              IF BucketTable[viEvents[i].category] = b THEN Duration(viEvents[i]) ELSE 0])

\* C9: every event's duration is added to exactly one bucket, chosen by the
\* first matching rule (work/meeting/coding, health/exercise/fitness,
\* personal/family/social, else other) on the lower-cased category; the four
\* reported totals add up to the sum of all durations.
C9_BalanceBuckets ==
    viPc = "done" =>
        /\ Balance.work = BucketHours("work")
        /\ Balance.personal = BucketHours("personal")
        /\ Balance.health = BucketHours("health")
        /\ Balance.other = BucketHours("other")
        /\ Balance.work + Balance.personal + Balance.health + Balance.other
             = SumSeq([i \in 1..Len(viEvents) |-> Duration(viEvents[i])])

\* C9 witness: a computed list with a "meeting" event (task type meetings,
\* bucket work) and an event of another bucket.
C9_Witness ==
    /\ viPc = "done"
    /\ Len(viEvents) = 2
    /\ viEvents[1].category = "meeting"
    /\ Heatmap[1].actualTaskType = "meetings"
    /\ Balance.work = Duration(viEvents[1])
    /\ Balance.work > 0
    /\ Balance.other = Duration(viEvents[2])
    /\ Balance.other > 0

Percentages ==
    <<<<Balance.work, Balance.workPercentage>>,
      <<Balance.personal, Balance.personalPercentage>>,
      <<Balance.health, Balance.healthPercentage>>,
      <<Balance.other, Balance.otherPercentage>>>>

TotalDuration == SumSeq([i \in 1..Len(viEvents) |-> Duration(viEvents[i])])

AllZero ==
    /\ \A k \in 1..4 : Percentages[k][2] = 0
    /\ Balance.balanceScore = 0

\* C10 as stated: with total hours 0 the four percentages and the balance
\* score are 0; with total hours different from 0 each percentage is the
\* bucket's share of the total in percent, rounded to the nearest integer.
C10_Original ==
    (viPc = "done" /\ Len(viEvents) > 0) =>
        /\ TotalDuration = 0 => AllZero
        /\ TotalDuration # 0 =>
             \A k \in 1..4 :
                NearestInt(Percentages[k][2], 100 * Percentages[k][1], TotalDuration)

\* C10 as amended: with total hours 0 the four percentages and the balance
\* score are 0; with total hours greater than 0 each percentage is the
\* bucket's share of the total in percent, rounded to the nearest integer;
\* with total hours below 0 the four percentages are 0.
C10_Percentages ==
    (viPc = "done" /\ Len(viEvents) > 0) =>
        /\ TotalDuration = 0 => AllZero
        /\ TotalDuration > 0 =>
             \A k \in 1..4 :
                NearestInt(Percentages[k][2], 100 * Percentages[k][1], TotalDuration)
        /\ TotalDuration < 0 => \A k \in 1..4 : Percentages[k][2] = 0

\* C10 witness: a computed list of a 1-hour and a -1-hour event, the total
\* being 0 with non-zero buckets.
C10_Witness ==
    /\ viPc = "done"
    /\ Len(viEvents) = 2
    /\ Duration(viEvents[1]) = Hours(1, 0)
    /\ Duration(viEvents[2]) = -Hours(1, 0)
    /\ Balance.work = Hours(1, 0)
    /\ Balance.health = -Hours(1, 0)
    /\ AllZero

Blocks == viOut.focusBlocks

\* The deviation of a bucket's share from its ideal, times |TotalDuration|.
Deviation(b, ideal) == Abs(100 * BucketHours(b) - ideal * TotalDuration)

\* 100 minus the three deviations, not below 0, times |TotalDuration|.
ClampedScore ==
    Max(0, 100 * Abs(TotalDuration)
           - (Deviation("work", 60) + Deviation("personal", 25) + Deviation("health", 15)))

\* C11: with total hours different from 0 the balance score is
\* max(0, 100 - (|workPct-60| + |personalPct-25| + |healthPct-15|)) rounded
\* to the nearest integer, each Pct being the bucket's share of the total
\* in percent; the "other" bucket adds no deviation; the score is an
\* integer in 0..100.
C11_BalanceScore ==
    (viPc = "done" /\ TotalDuration # 0) =>
        /\ NearestInt(Balance.balanceScore, ClampedScore, Abs(TotalDuration))
        /\ Balance.balanceScore \in 0..100

\* C11 witness: the single 9-11 "coding" event, scored 20.
C11_Witness ==
    /\ viPc = "done"
    /\ Len(viEvents) = 1
    /\ viEvents[1].start_time = Hours(9, 0) /\ viEvents[1].end_time = Hours(11, 0)
    /\ viEvents[1].category = "coding"
    /\ Balance.workPercentage = 100
    /\ Balance.balanceScore = 20

\* The one-to-one assignments of block positions to input positions.
Assignments ==
    {pi \in [1..Len(viEvents) -> 1..Len(viEvents)] :
        \A i, j \in 1..Len(viEvents) : i # j => pi[i] # pi[j]}

\* C12: focusBlocks has exactly one block per input event, in order of
\* non-decreasing startTime, events of equal startTime in their input
\* order; a block's duration is its event's endTime - startTime.
C12_OneBlockPerEvent ==
    viPc = "done" =>
        /\ Len(Blocks) = Len(viEvents)
        /\ \E pi \in Assignments :
             /\ \A i \in 1..Len(Blocks) :
                   /\ Blocks[i].title = viEvents[pi[i]].title
                   /\ Blocks[i].startTime = viEvents[pi[i]].start_time
                   /\ Blocks[i].duration = Duration(viEvents[pi[i]])
                   /\ Blocks[i].category = viEvents[pi[i]].category
             /\ \A i, j \in 1..Len(Blocks) :
                   i < j => \/ Blocks[i].startTime < Blocks[j].startTime
                            \/ Blocks[i].startTime = Blocks[j].startTime /\ pi[i] < pi[j]

\* C12 witness: two different events of equal start, the longer one given
\* first, come out in their input order.
C12_Witness ==
    /\ viPc = "done"
    /\ Len(viEvents) = 2
    /\ viEvents[1].start_time = viEvents[2].start_time
    /\ Duration(viEvents[1]) > Duration(viEvents[2])
    /\ Blocks[1].duration = Duration(viEvents[1])
    /\ Blocks[2].duration = Duration(viEvents[2])

\* The end of a block.
BlockEnd(block) == block.startTime + block.duration

\* C13: hasBreakAfter of a block is true exactly when the block is the
\* last one or the next block starts at least a quarter hour after this
\* one ends; it is false for a smaller gap and for an overlap.
C13_BreakAfter ==
    viPc = "done" =>
        \A i \in 1..Len(Blocks) :
            Blocks[i].hasBreakAfter
              <=> (\/ i = Len(Blocks)
                   \/ Blocks[i + 1].startTime - BlockEnd(Blocks[i]) >= Hours(0, 1))

\* C13 witness: a gap of exactly a quarter hour after the first block.
C13_Witness ==
    /\ viPc = "done"
    /\ Len(Blocks) = 2
    /\ Blocks[2].startTime - BlockEnd(Blocks[1]) = Hours(0, 1)
    /\ Blocks[1].hasBreakAfter
    /\ Blocks[2].hasBreakAfter

\* C14: quality is "excellent" exactly when duration >= 1.5, "good"
\* exactly when 0.5 <= duration < 1.5, and "fragmented" exactly when
\* duration < 0.5, zero and negative durations included.
C14_Quality ==
    viPc = "done" =>
        \A i \in 1..Len(Blocks) :
            /\ Blocks[i].quality = "excellent" <=> Blocks[i].duration >= Hours(1, 2)
            /\ Blocks[i].quality = "good"
                  <=> (Hours(0, 2) <= Blocks[i].duration /\ Blocks[i].duration < Hours(1, 2))
            /\ Blocks[i].quality = "fragmented" <=> Blocks[i].duration < Hours(0, 2)

\* C14 witness: a block of exactly 1.5 hours next to one of -1 hour.
C14_Witness ==
    /\ viPc = "done"
    /\ Len(Blocks) = 2
    /\ Blocks[1].duration = Hours(1, 2) /\ Blocks[1].quality = "excellent"
    /\ Blocks[2].duration = -Hours(1, 0) /\ Blocks[2].quality = "fragmented"

-----------------------------------------------------------------------------
(* Properties of generateAnalytics (checked under SpecAnalytics)           *)

\* The analytics of the answer, and the input's events and distinct dates.
Analytics == viOut.json.data

RangeEvents == IF viEvents.t = "null" THEN <<>> ELSE viEvents.v

DistinctDates == {RangeEvents[i].date : i \in 1..Len(RangeEvents)}

AnalyticsAnswered == viPc = "done" /\ viOut.status = 200 /\ viOut.json.success

EmptyRangeZeros ==
    RangeEvents = <<>> =>
        Analytics.totalEvents = 0 /\ Analytics.totalHours = 0
            /\ Analytics.averageEventsPerDay = 0

\* C17 as stated: an empty range gives three zeros; otherwise the number of
\* distinct dates is at least 1 and averageEventsPerDay is totalEvents
\* divided by it (the average is held in tenths).
C17_Original ==
    viPc = "done" =>
        /\ AnalyticsAnswered
        /\ EmptyRangeZeros
        /\ RangeEvents # <<>> =>
              /\ Cardinality(DistinctDates) >= 1
              /\ Analytics.totalEvents = Len(RangeEvents)
              /\ Analytics.averageEventsPerDay * Cardinality(DistinctDates)
                    = 10 * Len(RangeEvents)

\* C17 as amended: an empty range gives three zeros; otherwise the number
\* of distinct dates is at least 1 and averageEventsPerDay is totalEvents
\* divided by it, rounded to one decimal.
C17_NoDivisionByZero ==
    viPc = "done" =>
        /\ AnalyticsAnswered
        /\ EmptyRangeZeros
        /\ RangeEvents # <<>> =>
              /\ Cardinality(DistinctDates) >= 1
              /\ Analytics.totalEvents = Len(RangeEvents)
              /\ NearestInt(Analytics.averageEventsPerDay, 10 * Len(RangeEvents),
                            Cardinality(DistinctDates))

\* C17 witness: four events on three dates, the average 1.3.
C17_Witness ==
    /\ viPc = "done"
    /\ Len(RangeEvents) = 4
    /\ Cardinality(DistinctDates) = 3
    /\ Analytics.totalEvents = 4
    /\ Analytics.averageEventsPerDay = 13

-----------------------------------------------------------------------------
(* Properties of repeated runs (checked under SpecRuns)                    *)

\* The heatmap has one entry per event of the list, in the list's order.
heatmapFollows(heatmap, events) ==
    /\ Len(heatmap) = Len(events)
    /\ \A i \in 1..Len(events) :
          /\ heatmap[i].title = events[i].title
          /\ heatmap[i].startTime = events[i].start_time
          /\ heatmap[i].endTime = events[i].end_time

====
